---- MODULE Spec2Model ----
(***************************************************************************)
(* Virtual wires (hw/core/wire.c, include/hw/wire.h, util/vector.c).       *)
(*                                                                         *)
(* Wires resolve the strongest of their attached tri-state drivers, cache  *)
(* the result and notify listeners.  The model follows the C code: wire    *)
(* and driver structs are records, the VECTOR_OF() members are sequences,  *)
(* and every call that can run a listener is a frame of an explicit call   *)
(* stack so that listener re-entrancy is a behaviour of the model.         *)
(***************************************************************************)
EXTENDS Integers, Sequences, FiniteSets, TLC

----------------------------------------------------------------------------
(* Program constants, include/hw/wire.h                                    *)

STRENGTH_HI_Z == 0
STRENGTH_WEAK == 3
STRENGTH_PULL == 5
STRENGTH_STRONG == 6
STRENGTH_SUPPLY == 7
VALUE_MODE_D == 0
VALUE_MODE_A == 1
WIRE_INTRINSIC_DEFAULT == 3300000

NULL == 0

----------------------------------------------------------------------------
(* Bounds of the model                                                     *)

\* longest attachment list of a wire (attach is not offered beyond it)
MaxAttach == 2
\* longest driver list given to the resolver on its own
MaxResolve == 3

----------------------------------------------------------------------------
(* Generic helpers                                                         *)

Range(s) == {s[k] : k \in 1..Len(s)}

Count(x, s) == Cardinality({k \in 1..Len(s) : s[k] = x})

\* sequences over S of length at most n
SeqUpTo(S, n) == UNION {[1..k -> S] : k \in 0..n}

\* the permutations of sequence s, as sequences
PermsOf(s) ==
    {[k \in 1..Len(s) |-> s[p[k]]] :
        p \in {q \in [1..Len(s) -> 1..Len(s)] :
                  \A a, b \in 1..Len(s) : a # b => q[a] # q[b]}}

----------------------------------------------------------------------------
(* util/vector.c: a vector is modelled by the sequence of its first len    *)
(* elements.                                                               *)

\* VECTOR_DEL(v, i) with the C index i (0-based, unsigned): nothing when
\* i >= len
vector_del(v, i) ==
    IF 0 <= i /\ i < Len(v)
    THEN [k \in 1..(Len(v) - 1) |-> IF k <= i THEN v[k] ELSE v[k + 1]]
    ELSE v

\* VECTOR_APPEND(v, e)
vector_append(v, e) == Append(v, e)

\* the slots beyond the length after VECTOR_DEL(v, i), where t are the slots
\* beyond the length of v: memmove leaves the last element where it was
tail_del(v, t, i) ==
    IF 0 <= i /\ i < Len(v) THEN <<v[Len(v)]>> \o t ELSE t

\* the slots beyond the length after VECTOR_APPEND(v, e): the first of them
\* is written
tail_append(t) == IF t = <<>> THEN t ELSE Tail(t)

\* the C index of the last element equal to e, or -1: the backward search
\* loops "for (i = VECTOR_LEN(v); i--; ) if (VECTOR_AT(v, i) == e)"
last_index(v, e) ==
    IF \E k \in 1..Len(v) : v[k] = e
    THEN (CHOOSE k \in 1..Len(v) :
             v[k] = e /\ \A j \in (k + 1)..Len(v) : v[j] # e) - 1
    ELSE -1

----------------------------------------------------------------------------
(* wire_update(): the resolver and the change predicate                    *)

\* struct qemu_wire_drive best = { .value = 0, .strength = STRENGTH_HI_Z,
\*                                 .value_mode = VALUE_MODE_D }
best_init ==
    [strength |-> STRENGTH_HI_Z, value_mode |-> VALUE_MODE_D, value |-> 0,
     is_conflict |-> FALSE]

\* resolve_step with the bug of not clearing the conflict for a new strongest
\* driver
resolve_step_keeps_conflict(best, d) ==
    IF d.strength = STRENGTH_HI_Z \/ best.strength > d.strength
    THEN best
    ELSE IF d.strength = best.strength
    THEN IF best.is_conflict
         THEN best
         ELSE IF best.value_mode # d.value_mode \/ best.value # d.value
         THEN [best EXCEPT !.is_conflict = TRUE]
         ELSE best
    ELSE [strength |-> d.strength, value_mode |-> d.value_mode,
          value |-> d.value, is_conflict |-> best.is_conflict]

\* resolve_step with the bug of skipping drivers of equal strength (">="
\* for ">"): the first strongest driver met wins
resolve_step_first_wins(best, d) ==
    IF d.strength = STRENGTH_HI_Z \/ best.strength >= d.strength
    THEN best
    ELSE [strength |-> d.strength, value_mode |-> d.value_mode,
          value |-> d.value, is_conflict |-> FALSE]

\* one iteration of the loop over the attachments
resolve_step(best, d) ==
    IF d.strength = STRENGTH_HI_Z \/ best.strength > d.strength
    THEN best
    ELSE IF d.strength = best.strength
    THEN IF best.is_conflict
         THEN best
         ELSE IF best.value_mode # d.value_mode \/ best.value # d.value
         THEN [best EXCEPT !.is_conflict = TRUE]
         ELSE best
    ELSE [strength |-> d.strength, value_mode |-> d.value_mode,
          value |-> d.value, is_conflict |-> FALSE]

\* the loop "for (i = VECTOR_LEN(wire->attachments); i--; )": from the last
\* attachment to the first; ds is the sequence of the attached drivers' states
RECURSIVE resolve_from(_, _, _)
resolve_from(ds, i, best) ==
    IF i = 0 THEN best
    ELSE resolve_from(ds, i - 1, resolve_step(best, ds[i]))

Resolver(ds) == resolve_from(ds, Len(ds), best_init)

\* the change test with the bug of not testing the conflict flag
change_predicate_ignores_conflict(w, best) ==
    \/ (best.strength = STRENGTH_HI_Z /\ w.strength # STRENGTH_HI_Z)
    \/ (best.strength # STRENGTH_HI_Z /\ w.strength = STRENGTH_HI_Z)
    \/ (best.strength # STRENGTH_HI_Z
        /\ (best.value_mode # w.value_mode \/ best.value # w.value))

\* the change test with the bug of counting any change of strength
change_predicate_any_strength(w, best) ==
    \/ best.is_conflict # w.is_conflict
    \/ best.strength # w.strength
    \/ (best.strength # STRENGTH_HI_Z
        /\ (best.value_mode # w.value_mode \/ best.value # w.value))

\* "Is the best value different to the current value?"
change_predicate(w, best) ==
    \/ best.is_conflict # w.is_conflict
    \/ (best.strength = STRENGTH_HI_Z /\ w.strength # STRENGTH_HI_Z)
    \/ (best.strength # STRENGTH_HI_Z /\ w.strength = STRENGTH_HI_Z)
    \/ (best.strength # STRENGTH_HI_Z
        /\ (best.value_mode # w.value_mode \/ best.value # w.value))

\* wire_update() on wire record w whose attached drivers' states are ds
wire_update(w, ds) ==
    LET best == Resolver(ds) IN
    [w EXCEPT !.changed = IF w.changed THEN TRUE
                          ELSE change_predicate(w, best),
              !.strength = best.strength,
              !.is_conflict = best.is_conflict,
              !.value = best.value,
              !.value_mode = best.value_mode]

\* the cached tuple of a wire record
Cached(w) ==
    [strength |-> w.strength, value_mode |-> w.value_mode, value |-> w.value,
     is_conflict |-> w.is_conflict]

----------------------------------------------------------------------------
(* State                                                                   *)

Wires == {1, 2}
Drivers == {1, 2}

VARIABLES
    wire,     \* struct WireState of every wire
    driver,   \* struct WireDriverState of every driver
    stack,    \* the C call stack: the frames that can run a listener
    call,     \* the public call in progress, with what it has done so far
    multi,    \* struct multi_listener of every token
    rdrv,     \* resolver on its own: the attached drivers' states
    irq,      \* the qemu_irq storage an IRQ listener reads, and the IRQ
    rec,      \* the end of every string recorder_handler appends to
    spare,    \* the slots of every wire's listeners beyond their length
    rwire,    \* resolver on its own: the wire
    rpc       \* resolver on its own: "in" before wire_update, "out" after

mvars == <<wire, driver, stack, call, multi, irq, rec, spare>>
rvars == <<rdrv, rwire, rpc>>
vars ==
    <<wire, driver, stack, call, multi, irq, rec, spare, rdrv, rwire, rpc>>

\* object_new_with_type(wire_type) is zeroed; qemu_allocate_wire sets intrinsic
new_wire ==
    [ref |-> 1, intrinsic |-> WIRE_INTRINSIC_DEFAULT,
     attachments |-> <<>>, listeners |-> <<>>,
     value |-> 0, strength |-> STRENGTH_HI_Z, value_mode |-> VALUE_MODE_D,
     is_conflict |-> FALSE, changed |-> FALSE, in_callback |-> FALSE,
     driver_changed |-> FALSE]

\* object_new_with_type(wiredriver_type) is zeroed
new_driver ==
    [ref |-> 1, wires |-> <<>>, value |-> 0, strength |-> STRENGTH_HI_Z,
     value_mode |-> VALUE_MODE_D, changed |-> FALSE]

\* an object that is not allocated (never was, or was finalized)
no_wire == [new_wire EXCEPT !.ref = 0]
no_driver == [new_driver EXCEPT !.ref = 0]

\* the tokens qemu_wire_multi_listen returns: the multi_listener structs
Tokens == {1}

\* a struct multi_listener that is not allocated.  The uint32_t value is
\* the set of its 1 bits; seen is not in the source: what the watched wires
\* sensed as when the user's handler was last called
no_multi ==
    [n |-> 0, wires |-> <<>>, value |-> {}, weakest_strength |-> STRENGTH_HI_Z,
     in_conflict |-> FALSE, seen |-> <<>>]

\* the storage "const qemu_irq *irqp" points to holds NULL, and the IRQ that
\* the program may store there is low
no_irq == [p |-> NULL, level |-> 0]

\* the strings recorder_handler appends to, by opaque pointer, are empty:
\* of a string the model keeps the last record, what the handler sensed
Strings == {1, 2, 3}
no_rec == [o \in Strings |-> <<>>]

\* vector_init(): no slot of the listeners of any wire has been written
no_spare == [w \in Wires |-> <<>>]

NoCall == [op |-> <<>>]

\* what a public call has done so far: pre is the state it started from,
\* upd counts wire_update() per wire, swp counts wire_call_listeners() per
\* wire, events is what the recording listeners were called with, mevents
\* what the recording composite listeners were called with, marked and
\* flagged are the wires phase 1 marked and phase 2 flagged as changed, ret
\* is what the call returned, fault says that it dereferenced NULL
new_call(op, w, d) ==
    [op |-> op, pre |-> [wire |-> w, driver |-> d],
     upd |-> [x \in Wires |-> 0], swp |-> [x \in Wires |-> 0],
     events |-> <<>>, mevents |-> <<>>, marked |-> {}, flagged |-> {},
     diag |-> 0, hiz |-> 0, nested |-> 0, entered |-> 0, beyond |-> 0,
     earlier |-> 0, ret |-> <<>>, fault |-> FALSE]

\* the program state as one value, for the operators below
Cur ==
    [wire |-> wire, driver |-> driver, stack |-> stack, call |-> call,
     multi |-> multi, irq |-> irq, rec |-> rec, spare |-> spare]

Becomes(st) ==
    /\ wire' = st.wire
    /\ driver' = st.driver
    /\ stack' = st.stack
    /\ call' = st.call
    /\ multi' = st.multi
    /\ irq' = st.irq
    /\ rec' = st.rec
    /\ spare' = st.spare

Push(st, f) == [st EXCEPT !.stack = Append(@, f)]
Pop(st) == [st EXCEPT !.stack = SubSeq(@, 1, Len(@) - 1)]
Top(st) == st.stack[Len(st.stack)]

Idle == stack = <<>> /\ call = NoCall
Returned == stack = <<>> /\ call # NoCall

\* the call dereferences a NULL pointer: the program is killed in the call
Fault(st) == [st EXCEPT !.call.fault = TRUE, !.stack = <<>>]
Faulted == call # NoCall /\ call.fault

----------------------------------------------------------------------------
(* Listeners and notification                                              *)

\* the states of the drivers attached to wire w, in attachment order
attached_states(st, w) ==
    [k \in 1..Len(st.wire[w].attachments) |->
        st.driver[st.wire[w].attachments[k]]]

\* wire_update(wire)
update(st, w) ==
    [st EXCEPT !.wire[w] = wire_update(@, attached_states(st, w)),
               !.call.upd[w] = @ + 1]

\* wire_call_listeners(wire) up to its loop: the diagnostic, in_callback = 1
call_listeners(st, w) ==
    Push([st EXCEPT !.wire[w].in_callback = TRUE,
                    !.call.swp[w] = @ + 1,
                    !.call.diag = IF st.wire[w].in_callback THEN @ + 1 ELSE @],
         [fn |-> "wire_call_listeners", wire |-> w,
          i |-> Len(st.wire[w].listeners)])

\* wire_notify_if_changed(wire)
notify_if_changed(st, w) ==
    IF st.wire[w].changed
    THEN call_listeners([st EXCEPT !.wire[w].changed = FALSE], w)
    ELSE st

\* qemu_wire_listen without "if (!wire) return": a NULL wire faults
wire_listen_unchecked(st, w, lis) ==
    IF w = NULL THEN Fault(st)
    ELSE [st EXCEPT !.wire[w].listeners = vector_append(@, lis)]

\* qemu_wire_listen(wire, handler, opaque)
wire_listen(st, w, lis) ==
    IF w = NULL THEN st
    ELSE [st EXCEPT !.wire[w].listeners = vector_append(@, lis),
                    !.spare[w] = tail_append(@)]

\* qemu_wire_unlisten searching forwards: the first match is removed
wire_unlisten_first(st, w, lis) ==
    IF w = NULL \/ lis \notin Range(st.wire[w].listeners) THEN st
    ELSE LET ls == st.wire[w].listeners
             k == CHOOSE k \in 1..Len(ls) :
                      ls[k] = lis /\ \A j \in 1..(k - 1) : ls[j] # lis
         IN [st EXCEPT !.wire[w].listeners = vector_del(@, k - 1)]

\* qemu_wire_unlisten(wire, handler, opaque)
wire_unlisten(st, w, lis) ==
    IF w = NULL THEN st
    ELSE LET ls == st.wire[w].listeners IN
         [st EXCEPT !.wire[w].listeners = vector_del(@, last_index(@, lis)),
                    !.spare[w] = tail_del(ls, @, last_index(ls, lis))]

----------------------------------------------------------------------------
(* Attach and detach                                                       *)

\* qemu_wire_attach with the bug of not appending to driver->wires
wire_attach_one_sided(st, w, d) ==
    IF w = NULL THEN st
    ELSE [st EXCEPT !.wire[w].attachments = vector_append(@, d),
                    !.driver[d].ref = @ + 1]

\* qemu_wire_attach with the bug of appending to driver->wires twice
wire_attach_twice(st, w, d) ==
    IF w = NULL THEN st
    ELSE [st EXCEPT !.wire[w].attachments = vector_append(@, d),
                    !.driver[d].wires = vector_append(vector_append(@, w), w),
                    !.driver[d].ref = @ + 1]

\* qemu_wire_attach with the bug of not taking a reference to the driver
wire_attach_no_ref(st, w, d) ==
    IF w = NULL THEN st
    ELSE [st EXCEPT !.wire[w].attachments = vector_append(@, d),
                    !.driver[d].wires = vector_append(@, w)]

\* qemu_wire_attach followed by wire_update(wire), which the source leaves out
wire_attach_resolving(st, w, d) ==
    IF w = NULL THEN st
    ELSE update([st EXCEPT !.wire[w].attachments = vector_append(@, d),
                           !.driver[d].wires = vector_append(@, w),
                           !.driver[d].ref = @ + 1], w)

\* qemu_wire_attach(wire, driver); "driver->wires" of a NULL driver faults
wire_attach(st, w, d) ==
    IF w = NULL THEN st
    ELSE IF d = NULL THEN Fault(st)
    ELSE [st EXCEPT !.wire[w].attachments = vector_append(@, d),
                    !.driver[d].wires = vector_append(@, w),
                    !.driver[d].ref = @ + 1]

\* qemu_wire_detach(wire, driver) up to wire_update()
detach_remove(st, w, d) ==
    LET i == last_index(st.driver[d].wires, w)
        j == last_index(st.wire[w].attachments, d)
    IN [st EXCEPT !.driver[d].wires = IF i >= 0 THEN vector_del(@, i) ELSE @,
                  !.wire[w].attachments =
                      IF j >= 0 THEN vector_del(@, j) ELSE @,
                  !.driver[d].ref = IF j >= 0 THEN @ - 1 ELSE @]

\* a detach that leaves the wire's cached state as it was
wire_detach_keeps_cache(st, w, d) ==
    IF w = NULL THEN st
    ELSE IF d = NULL THEN Fault(st)
    ELSE notify_if_changed(detach_remove(st, w, d), w)

\* qemu_wire_detach(wire, driver); "driver->wires" of a NULL driver faults
wire_detach(st, w, d) ==
    IF w = NULL THEN st
    ELSE IF d = NULL THEN Fault(st)
    ELSE notify_if_changed(update(detach_remove(st, w, d), w), w)

----------------------------------------------------------------------------
(* qemu_wire_multi_drive()                                                 *)

\* a drive descriptor, struct qemu_wire_drive
Drive(d, strength, mode, value) ==
    [driver |-> d, value |-> value, strength |-> strength,
     value_mode |-> mode]

\* the test with the bug of never finding a descriptor unchanged
same_drive_never(drv, wd) == FALSE

\* "driver->strength == wd->strength && ..." : the descriptor changes nothing
same_drive(drv, wd) ==
    /\ drv.strength = wd.strength
    /\ drv.value_mode = wd.value_mode
    /\ drv.value = wd.value

\* "wire->driver_changed = 1" for every wire there is
mark_wires_all(st, d, i) ==
    [st EXCEPT !.wire = [w \in Wires |-> [@[w] EXCEPT !.driver_changed = TRUE]],
               !.call.marked = Wires]

\* "wire->driver_changed = 1" for every wire of driver d
RECURSIVE mark_wires(_, _, _)
mark_wires(st, d, i) ==
    IF i >= Len(st.driver[d].wires) THEN st
    ELSE LET w == st.driver[d].wires[i + 1] IN
         mark_wires([st EXCEPT !.wire[w].driver_changed = TRUE,
                               !.call.marked = @ \cup {w}], d, i + 1)

\* phase 1, "Copy the new values into their drivers", from descriptor k on
RECURSIVE phase1(_, _, _)
phase1(st, drives, k) ==
    IF k > Len(drives) THEN st
    ELSE LET wd == drives[k]
             d == wd.driver
         IN IF d = NULL \/ same_drive(st.driver[d], wd)
            THEN phase1(st, drives, k + 1)
            ELSE phase1(mark_wires([st EXCEPT
                                       !.driver[d].strength = wd.strength,
                                       !.driver[d].value_mode = wd.value_mode,
                                       !.driver[d].value = wd.value,
                                       !.driver[d].changed = TRUE],
                                   d, 0),
                        drives, k + 1)

\* phase 2's inner loop body with the bug of leaving driver_changed set
update_if_marked_keeps_mark(st, w) ==
    IF st.wire[w].driver_changed
    THEN LET u == update(st, w) IN
         [u EXCEPT !.call.flagged = IF u.wire[w].changed THEN @ \cup {w}
                                    ELSE @]
    ELSE st

\* the body of phase 2's inner loop for wire w
update_if_marked(st, w) ==
    IF st.wire[w].driver_changed
    THEN LET u == update(st, w) IN
         [u EXCEPT !.wire[w].driver_changed = FALSE,
                   !.call.flagged = IF u.wire[w].changed THEN @ \cup {w}
                                    ELSE @]
    ELSE st

\* phase 2's inner loop over the wires of driver d
RECURSIVE update_wires(_, _, _)
update_wires(st, d, i) ==
    IF i >= Len(st.driver[d].wires) THEN st
    ELSE update_wires(update_if_marked(st, st.driver[d].wires[i + 1]),
                      d, i + 1)

\* phase 2 with the bug of stopping after the first changed driver, which
\* leaves the wires of the others to be resolved after the notifications
RECURSIVE phase2_first_only(_, _, _)
phase2_first_only(st, drives, k) ==
    IF k > Len(drives) THEN st
    ELSE LET d == drives[k].driver IN
         IF d = NULL \/ ~st.driver[d].changed
         THEN phase2_first_only(st, drives, k + 1)
         ELSE update_wires(st, d, 0)

\* phase 2, "Update each wire that has a driver that changed"
RECURSIVE phase2(_, _, _)
phase2(st, drives, k) ==
    IF k > Len(drives) THEN st
    ELSE LET d == drives[k].driver IN
         IF d = NULL \/ ~st.driver[d].changed
         THEN phase2(st, drives, k + 1)
         ELSE phase2(update_wires(st, d, 0), drives, k + 1)

\* phase 3, "Now call all the listeners that may have changed", resumed at the
\* position the top frame holds, up to the next wire_call_listeners() or
\* the return.  The frame: wd is the descriptor (from 1), inner says whether
\* the loop over its driver's wires is entered, i is that loop's index.
RECURSIVE phase3(_)
phase3(st) ==
    LET f == Top(st)
        n == Len(st.stack)
    IN IF f.wd > Len(f.drives) THEN Pop(st)
       ELSE LET d == f.drives[f.wd].driver IN
            IF ~f.inner
            THEN IF d = NULL \/ ~st.driver[d].changed
                 THEN phase3([st EXCEPT !.stack[n].wd = @ + 1])
                 ELSE phase3([st EXCEPT !.driver[d].changed = FALSE,
                                        !.stack[n].inner = TRUE,
                                        !.stack[n].i = 0])
            ELSE IF f.i >= Len(st.driver[d].wires)
                 THEN phase3([st EXCEPT !.stack[n].wd = @ + 1,
                                        !.stack[n].inner = FALSE])
                 ELSE LET w == st.driver[d].wires[f.i + 1]
                          nx == [st EXCEPT !.stack[n].i = @ + 1]
                      IN IF st.wire[w].changed
                         THEN notify_if_changed(nx, w)
                         ELSE phase3(nx)

\* qemu_wire_multi_drive(drives, n)
multi_drive(st, drives) ==
    phase3(Push(phase2(phase1(st, drives, 1), drives, 1),
                [fn |-> "qemu_wire_multi_drive", drives |-> drives,
                 wd |-> 1, inner |-> FALSE, i |-> 0]))

\* qemu_wire_drive(driver, strength, dval)
wire_drive(st, d, strength, dval) ==
    multi_drive(st, <<Drive(d, strength, VALUE_MODE_D,
                            IF dval THEN 1 ELSE 0)>>)

\* qemu_wire_drive_a(driver, strength, aval)
wire_drive_a(st, d, strength, aval) ==
    multi_drive(st, <<Drive(d, strength, VALUE_MODE_A, aval)>>)

\* qemu_wire_drive_z(driver)
wire_drive_z(st, d) == wire_drive(st, d, STRENGTH_HI_Z, FALSE)

----------------------------------------------------------------------------
(* Freeing                                                                 *)

\* qemu_free_wire() without wire_clear(): the wire is finalized while its
\* drivers are still attached to it
free_wire_abandon(st) == Pop([st EXCEPT !.wire[Top(st).wire] = no_wire])

\* wire_clear(wire) from qemu_free_wire(), resumed in its first loop, up to
\* the next wire_call_listeners() or to the end of qemu_free_wire(): the
\* second loop unlistens every listener, object_unref finalizes the wire
RECURSIVE free_wire_run(_)
free_wire_run(st) ==
    LET w == Top(st).wire
        at == st.wire[w].attachments
    IN IF Len(at) = 0
       THEN Pop([st EXCEPT !.wire[w] = no_wire, !.spare[w] = <<>>])
       ELSE LET nx == wire_detach(st, w, at[Len(at)]) IN
            IF Len(nx.stack) > Len(st.stack) THEN nx
            ELSE free_wire_run(nx)

\* qemu_free_wire(wire)
free_wire(st, w) ==
    IF w = NULL THEN st
    ELSE free_wire_run(Push(st, [fn |-> "qemu_free_wire", wire |-> w]))

\* object_unref(&driver->object): the object is finalized with its last
\* reference
unref(drv) == IF drv.ref = 1 THEN no_driver ELSE [drv EXCEPT !.ref = @ - 1]

\* wiredriver_clear(driver) from qemu_free_wiredriver(), resumed in its loop
\* "for (i = VECTOR_LEN(driver->wires); i--; )" with the frame's i, up to the
\* next wire_call_listeners() or to the end of qemu_free_wiredriver()
RECURSIVE free_driver_run(_)
free_driver_run(st) ==
    LET f == Top(st)
        n == Len(st.stack)
        d == f.driver
    IN IF f.i = 0
       THEN Pop([st EXCEPT !.driver[d] = unref(@)])
       ELSE LET nx == wire_detach([st EXCEPT !.stack[n].i = @ - 1],
                                  st.driver[d].wires[f.i], d)
            IN IF Len(nx.stack) > Len(st.stack) THEN nx
               ELSE free_driver_run(nx)

\* qemu_free_wiredriver(driver)
free_wiredriver(st, d) ==
    IF d = NULL THEN st
    ELSE free_driver_run(Push(st, [fn |-> "qemu_free_wiredriver",
                                   driver |-> d,
                                   i |-> Len(st.driver[d].wires)]))

----------------------------------------------------------------------------
(* Sensing                                                                 *)

\* the C "/" of int: the quotient truncated towards zero
cdiv(a, b) == IF a >= 0 THEN a \div b ELSE -((-a) \div b)

\* qemu_wire_sense(wire, &strength): the value and the strength returned
wire_sense(st, w) ==
    IF w = NULL THEN [value |-> FALSE, strength |-> STRENGTH_HI_Z]
    ELSE LET x == st.wire[w] IN
         [value |-> IF x.value_mode = VALUE_MODE_A
                    THEN x.value >= cdiv(x.intrinsic, 2)
                    ELSE x.value # 0,
          strength |-> x.strength]

\* qemu_wire_sense_a(wire, &strength): the value and the strength returned
wire_sense_a(st, w) ==
    IF w = NULL THEN [value |-> 0, strength |-> STRENGTH_HI_Z]
    ELSE LET x == st.wire[w] IN
         [value |-> IF x.value_mode = VALUE_MODE_A THEN x.value
                    ELSE IF x.value # 0 THEN x.intrinsic ELSE 0,
          strength |-> x.strength]

\* qemu_wire_sense_strength(wire)
wire_sense_strength(st, w) ==
    IF w = NULL THEN STRENGTH_HI_Z ELSE st.wire[w].strength

\* qemu_wire_sense_conflicted(wire)
wire_sense_conflicted(st, w) ==
    IF w = NULL THEN FALSE ELSE st.wire[w].is_conflict

\* what the four sensing functions return for wire w
sensed(st, w) ==
    [d |-> wire_sense(st, w), a |-> wire_sense_a(st, w),
     strength |-> wire_sense_strength(st, w),
     conflicted |-> wire_sense_conflicted(st, w)]

----------------------------------------------------------------------------
(* Listener callbacks                                                      *)

\* tests/test-wire.c recorder_handler: records what it senses of the wire
recorder == "recorder_handler"

Listener(h, o) == [handler |-> h, opaque |-> o]

----------------------------------------------------------------------------
(* qemu_wire_multi_sense() and the composite listener                      *)

\* the bits of uint32_t, "if (n > 32) n = 32"
UINT32_BITS == 32

\* the loop of qemu_wire_multi_sense from index i on; the result is the set
\* of its 1 bits
RECURSIVE multi_sense_from(_, _, _, _, _, _)
multi_sense_from(st, ws, n, i, result, weakest) ==
    IF i >= n THEN [value |-> result, weakest |-> weakest]
    ELSE LET s == wire_sense(st, ws[i + 1]) IN
         multi_sense_from(st, ws, n, i + 1,
             IF s.value THEN result \cup {i} ELSE result,
             IF i = 0 \/ s.strength < weakest THEN s.strength ELSE weakest)

\* qemu_wire_multi_sense without the clamp of n
wire_multi_sense_unclamped(st, ws, n) ==
    multi_sense_from(st, ws, n, 0, {}, STRENGTH_HI_Z)

\* qemu_wire_multi_sense(wires, n, &weakest_strength)
wire_multi_sense(st, ws, n) ==
    multi_sense_from(st, ws, IF n > UINT32_BITS THEN UINT32_BITS ELSE n,
                     0, {}, STRENGTH_HI_Z)

\* the listener of every wire a composite listener watches
composite == "multi_handler"

\* what each of the wires senses as: digital value, HI_Z or not, conflicted
watched(st, ws) ==
    [i \in 1..Len(ws) |->
        [d |-> wire_sense(st, ws[i]).value,
         hi_z |-> wire_sense_strength(st, ws[i]) = STRENGTH_HI_Z,
         conflict |-> wire_sense_conflicted(st, ws[i])]]

\* tests/test-wire.c recorder_multi_handler: records what it is called with
recorder_multi_handler(st, o, value, weakest_strength, before) ==
    [st EXCEPT !.call.mevents =
        Append(@, [opaque |-> o, value |-> value,
                   weakest_strength |-> weakest_strength,
                   n |-> st.multi[o].n, before |-> before,
                   now |-> watched(st, st.multi[o].wires)])]

\* multi_handler with "changed" always true
multi_changed_always(ml, in_conflict, s) == TRUE

\* multi_handler: "changed" comparing the value also when nothing is driven
multi_changed_reads_value(ml, in_conflict, s) ==
    \/ in_conflict # ml.in_conflict
    \/ s.weakest = STRENGTH_HI_Z /\ ml.weakest_strength # STRENGTH_HI_Z
    \/ s.weakest # STRENGTH_HI_Z /\ ml.weakest_strength = STRENGTH_HI_Z
    \/ s.value # ml.value
    \/ ml.n > UINT32_BITS

\* multi_handler: "changed"
multi_changed(ml, in_conflict, s) ==
    \/ in_conflict # ml.in_conflict
    \/ s.weakest = STRENGTH_HI_Z /\ ml.weakest_strength # STRENGTH_HI_Z
    \/ s.weakest # STRENGTH_HI_Z /\ ml.weakest_strength = STRENGTH_HI_Z
    \/ s.weakest # STRENGTH_HI_Z /\ (s.value # ml.value \/ ml.n > UINT32_BITS)

\* multi_handler that calls the handler and stores nothing
multi_handler_forgetful(st, o, w) ==
    LET ml == st.multi[o]
        in_conflict == \E i \in 1..ml.n :
                           /\ ml.wires[i] # NULL
                           /\ st.wire[ml.wires[i]].is_conflict
        s == wire_multi_sense(st, ml.wires, ml.n)
    IN IF in_conflict /\ ml.in_conflict THEN st
       ELSE IF multi_changed(ml, in_conflict, s)
       THEN recorder_multi_handler(st, o, s.value, s.weakest, ml.seen)
       ELSE st

\* multi_handler without "if (in_conflict && ml->in_conflict) return"
multi_handler_flapping(st, o, w) ==
    LET ml == st.multi[o]
        in_conflict == \E i \in 1..ml.n :
                           /\ ml.wires[i] # NULL
                           /\ st.wire[ml.wires[i]].is_conflict
        s == wire_multi_sense(st, ml.wires, ml.n)
    IN IF multi_changed(ml, in_conflict, s)
       THEN recorder_multi_handler(
                [st EXCEPT !.multi[o].weakest_strength = s.weakest,
                           !.multi[o].value = s.value,
                           !.multi[o].in_conflict = in_conflict,
                           !.multi[o].seen = watched(st, ml.wires)],
                o, s.value, s.weakest, ml.seen)
       ELSE st

\* multi_handler(opaque, wire), the listener of every watched wire
multi_handler(st, o, w) ==
    LET ml == st.multi[o]
        in_conflict == \E i \in 1..ml.n :
                           /\ ml.wires[i] # NULL
                           /\ st.wire[ml.wires[i]].is_conflict
        s == wire_multi_sense(st, ml.wires, ml.n)
    IN IF in_conflict /\ ml.in_conflict THEN st
       ELSE IF multi_changed(ml, in_conflict, s)
       THEN recorder_multi_handler(
                [st EXCEPT !.multi[o].weakest_strength = s.weakest,
                           !.multi[o].value = s.value,
                           !.multi[o].in_conflict = in_conflict,
                           !.multi[o].seen = watched(st, ml.wires)],
                o, s.value, s.weakest, ml.seen)
       ELSE st

\* the loop of qemu_wire_multi_listen from index i on
RECURSIVE multi_listen_from(_, _, _, _)
multi_listen_from(st, o, ws, i) ==
    IF i >= Len(ws) THEN st
    ELSE multi_listen_from(wire_listen(st, ws[i + 1], Listener(composite, o)),
                           o, ws, i + 1)

\* qemu_wire_multi_listen(wires, n, handler, opaque) with the token o that
\* g_malloc returns; value is not initialised and holds v.  The wires are
\* taken to have sensed as HI_Z and unconflicted before
wire_multi_listen(st, o, ws, v) ==
    IF Len(ws) = 0 THEN st
    ELSE multi_listen_from(
             [st EXCEPT !.multi[o] =
                 [n |-> Len(ws), wires |-> ws, value |-> v,
                  weakest_strength |-> STRENGTH_HI_Z, in_conflict |-> FALSE,
                  seen |-> [i \in 1..Len(ws) |->
                               [d |-> FALSE, hi_z |-> TRUE,
                                conflict |-> FALSE]]]],
             o, ws, 0)

\* the loop of qemu_wire_multi_unlisten, unlistening once per distinct wire
RECURSIVE multi_unlisten_distinct(_, _, _)
multi_unlisten_distinct(st, o, i) ==
    IF i >= st.multi[o].n THEN st
    ELSE multi_unlisten_distinct(
             IF \E j \in 1..i : st.multi[o].wires[j] = st.multi[o].wires[i + 1]
             THEN st
             ELSE wire_unlisten(st, st.multi[o].wires[i + 1],
                                Listener(composite, o)),
             o, i + 1)

\* the loop of qemu_wire_multi_unlisten from index i on
RECURSIVE multi_unlisten_from(_, _, _)
multi_unlisten_from(st, o, i) ==
    IF i >= st.multi[o].n THEN st
    ELSE multi_unlisten_from(
             wire_unlisten(st, st.multi[o].wires[i + 1],
                           Listener(composite, o)),
             o, i + 1)

\* qemu_wire_multi_unlisten(token); the struct is not freed, and no listener
\* refers to it any more: the token is free for another g_malloc
wire_multi_unlisten(st, o) ==
    IF o = NULL THEN st
    ELSE [multi_unlisten_from(st, o, 0) EXCEPT !.multi[o] = no_multi]

\* a handler that records like recorder_handler and may then unregister
\* itself or a listener registered after it
unlistener == "unlistening_handler"

\* recorder_handler(opaque, wire)
recorder_handler(st, o, w) ==
    [st EXCEPT !.call.events =
        Append(@, [opaque |-> o, wire |-> w, seen |-> Cached(st.wire[w])])]

\* hw/core/wire.c qemu_wire_irq_handler: drives an IRQ to the wire's state;
\* its opaque pointer is the address of the storage of a qemu_irq
irq_handler == "qemu_wire_irq_handler"
IRQP == 1

\* qemu_set_irq(irq, level): the level of the IRQ becomes level
set_irq(st, i, level) ==
    IF i = NULL THEN st
    ELSE [st EXCEPT !.irq.level = IF level THEN 1 ELSE 0]

\* qemu_wire_irq_handler setting the IRQ also from a wire that is HI_Z
wire_irq_handler_always(st, o, w) ==
    LET en == [st EXCEPT !.call.events =
                  Append(@, [opaque |-> o, wire |-> w,
                             seen |-> Cached(st.wire[w])])]
    IN IF st.irq.p = NULL THEN en
       ELSE set_irq(en, st.irq.p, wire_sense(st, w).value)

\* qemu_wire_irq_handler(opaque, wire); events is not in the source: the
\* invocation is recorded, hiz counts the "is hi-Z" lines on stderr
wire_irq_handler(st, o, w) ==
    LET en == [st EXCEPT !.call.events =
                  Append(@, [opaque |-> o, wire |-> w,
                             seen |-> Cached(st.wire[w])])]
    IN IF st.irq.p = NULL THEN en
       ELSE IF wire_sense_strength(st, w) = STRENGTH_HI_Z
       THEN [en EXCEPT !.call.hiz = @ + 1]
       ELSE set_irq(en, st.irq.p, wire_sense(st, w).value)

\* "listener->handler(listener->opaque, wire)": the callback is entered;
\* entered is not in the source: the handlers the public call has entered
invoke(st, lis, w) ==
    Push(IF lis.handler = recorder
         THEN recorder_handler([st EXCEPT !.call.entered = @ + 1,
                                          !.rec[lis.opaque] =
                                              <<Cached(st.wire[w])>>],
                               lis.opaque, w)
         ELSE IF lis.handler = unlistener
         THEN recorder_handler([st EXCEPT !.call.entered = @ + 1],
                               lis.opaque, w)
         ELSE IF lis.handler = composite
         THEN multi_handler([st EXCEPT !.call.entered = @ + 1],
                            lis.opaque, w)
         ELSE IF lis.handler = irq_handler
         THEN wire_irq_handler([st EXCEPT !.call.entered = @ + 1],
                               lis.opaque, w)
         ELSE [st EXCEPT !.call.entered = @ + 1],
         [fn |-> "handler", lis |-> lis, wire |-> w, acted |-> FALSE])

\* wire_call_listeners()'s loop run forwards, "for (i = 0; i < len; i++)"
sweep_forwards(st) ==
    LET f == Top(st)
        n == Len(st.stack)
        k == Len(st.call.pre.wire[f.wire].listeners) - f.i + 1
    IN IF f.i = 0
       THEN Pop([st EXCEPT !.wire[f.wire].in_callback = FALSE])
       ELSE IF k <= Len(st.wire[f.wire].listeners)
       THEN invoke([st EXCEPT !.stack[n].i = @ - 1],
                   st.wire[f.wire].listeners[k], f.wire)
       ELSE [st EXCEPT !.stack[n].i = @ - 1]

\* wire_call_listeners()'s loop without its "i--": the same listener is
\* called again and again
sweep_stuck(st) ==
    LET f == Top(st)
    IN IF f.i = 0
       THEN Pop([st EXCEPT !.wire[f.wire].in_callback = FALSE])
       ELSE invoke(st, st.wire[f.wire].listeners[f.i], f.wire)

\* VECTOR_AT(wire->listeners, i - 1): beyond the length it is the slot as
\* VECTOR_DEL left it
slot(st, w, i) ==
    LET ls == st.wire[w].listeners
    IN IF i <= Len(ls) THEN ls[i] ELSE st.spare[w][i - Len(ls)]

\* one turn of wire_call_listeners()'s loop "for (i = len; i--; )", or its
\* end; beyond is not in the source: the slots read at or beyond the length
sweep(st) ==
    LET f == Top(st)
        n == Len(st.stack)
        ls == st.wire[f.wire].listeners
    IN IF f.i = 0
       THEN Pop([st EXCEPT !.wire[f.wire].in_callback = FALSE])
       ELSE invoke([st EXCEPT !.stack[n].i = @ - 1,
                              !.call.beyond =
                                  IF f.i > Len(ls) THEN @ + 1 ELSE @],
                   slot(st, f.wire, f.i), f.wire)

\* the C code runs on from the top frame until a listener's handler is
\* entered or the public call returns
RECURSIVE resume(_)
resume(st) ==
    IF st.stack = <<>> THEN st
    ELSE LET fn == Top(st).fn IN
         IF fn = "wire_call_listeners" THEN resume(sweep(st))
         ELSE IF fn = "qemu_wire_multi_drive" THEN resume(phase3(st))
         ELSE IF fn = "qemu_free_wire" THEN resume(free_wire_run(st))
         ELSE IF fn = "qemu_free_wiredriver" THEN resume(free_driver_run(st))
         ELSE st

----------------------------------------------------------------------------
(* Inputs                                                                  *)

\* the opaque pointers of the recording listeners
Opaques == {1}

\* longest listener list of a wire (listen is not offered beyond it)
MaxListen == 1

\* (strength, dval) of qemu_wire_drive and (strength, aval) of
\* qemu_wire_drive_a for a single wire under test
LeafDigital ==
    {STRENGTH_HI_Z, STRENGTH_WEAK, STRENGTH_PULL, STRENGTH_STRONG}
        \X BOOLEAN
LeafAnalogue == {<<STRENGTH_HI_Z, 1>>, <<STRENGTH_PULL, 1>>}

\* (strength, dval) of qemu_wire_drive where the attachment graph varies
GraphDigital == {<<STRENGTH_HI_Z, FALSE>>, <<STRENGTH_PULL, TRUE>>}

\* (strength, dval) of qemu_wire_drive beside the batches
BatchDigital ==
    {<<STRENGTH_HI_Z, FALSE>>, <<STRENGTH_PULL, TRUE>>,
     <<STRENGTH_STRONG, FALSE>>}

\* the batches of two descriptors: the first for driver 1 or no driver
Batches ==
    {<<Drive(a, x[1], VALUE_MODE_D, IF x[2] THEN 1 ELSE 0),
       Drive(b, y[1], VALUE_MODE_D, IF y[2] THEN 1 ELSE 0)>> :
        a \in {1, NULL}, b \in Drivers, x \in BatchDigital, y \in BatchDigital}

LiveWires == {w \in Wires : wire[w].ref > 0}
LiveDrivers == {d \in Drivers : driver[d].ref > 0}

\* a public call begins
Enter(op) == [Cur EXCEPT !.call = new_call(op, wire, driver)]

----------------------------------------------------------------------------
(* The public calls, made by the program when no call is in progress       *)

AllocateWire ==
    /\ Idle
    /\ \E w \in Wires \ LiveWires :
          Becomes([Enter(<<"allocate_wire", w>>) EXCEPT !.wire[w] = new_wire])
    /\ UNCHANGED rvars

\* qemu_allocate_wiredriver(wire)
AllocateWireDriver ==
    /\ Idle
    /\ \E d \in Drivers \ LiveDrivers, w \in LiveWires \cup {NULL} :
          /\ w # NULL => Len(wire[w].attachments) < MaxAttach
          /\ Becomes(wire_attach([Enter(<<"allocate_wiredriver", d, w>>)
                                     EXCEPT !.driver[d] = new_driver], w, d))
    /\ UNCHANGED rvars

FreeWire ==
    /\ Idle
    /\ \E w \in LiveWires :
          Becomes(resume(free_wire(Enter(<<"free_wire", w>>), w)))
    /\ UNCHANGED rvars

FreeWireDriver ==
    /\ Idle
    /\ \E d \in LiveDrivers :
          Becomes(resume(free_wiredriver(Enter(<<"free_wiredriver", d>>),
                                         d)))
    /\ UNCHANGED rvars

Attach ==
    /\ Idle
    /\ \E w \in LiveWires, d \in LiveDrivers :
          /\ Len(wire[w].attachments) < MaxAttach
          /\ Becomes(wire_attach(Enter(<<"attach", w, d>>), w, d))
    /\ UNCHANGED rvars

Detach ==
    /\ Idle
    /\ \E w \in LiveWires, d \in LiveDrivers :
          Becomes(resume(wire_detach(Enter(<<"detach", w, d>>), w, d)))
    /\ UNCHANGED rvars

Listen ==
    /\ Idle
    /\ \E w \in LiveWires, o \in Opaques :
          /\ Len(wire[w].listeners) < MaxListen
          /\ Becomes(wire_listen(Enter(<<"listen", w, o>>), w,
                                 Listener(recorder, o)))
    /\ UNCHANGED rvars

Unlisten ==
    /\ Idle
    /\ \E w \in LiveWires, o \in Opaques :
          Becomes(wire_unlisten(Enter(<<"unlisten", w, o>>), w,
                                Listener(recorder, o)))
    /\ UNCHANGED rvars

\* qemu_wire_drive(driver, strength, dval) with (strength, dval) in S
DriveDigital(S) ==
    /\ Idle
    /\ \E d \in LiveDrivers, x \in S :
          LET ds == <<Drive(d, x[1], VALUE_MODE_D, IF x[2] THEN 1 ELSE 0)>>
          IN Becomes(resume(wire_drive(Enter(<<"multi_drive", ds>>),
                                       d, x[1], x[2])))
    /\ UNCHANGED rvars

\* qemu_wire_drive_a(driver, strength, aval) with (strength, aval) in S
DriveAnalogue(S) ==
    /\ Idle
    /\ \E d \in LiveDrivers, x \in S :
          LET ds == <<Drive(d, x[1], VALUE_MODE_A, x[2])>>
          IN Becomes(resume(wire_drive_a(Enter(<<"multi_drive", ds>>),
                                         d, x[1], x[2])))
    /\ UNCHANGED rvars

\* qemu_wire_multi_drive(drives, 2)
MultiDrive ==
    /\ Idle
    /\ \E ds \in Batches :
          /\ \A k \in 1..Len(ds) : ds[k].driver \in LiveDrivers \cup {NULL}
          /\ Becomes(resume(multi_drive(Enter(<<"multi_drive", ds>>), ds)))
    /\ UNCHANGED rvars

\* the public call returns to the program
Return ==
    /\ Returned
    /\ ~call.fault
    /\ call' = NoCall
    /\ UNCHANGED <<wire, driver, stack, multi, irq, rec, spare>>
    /\ UNCHANGED rvars

----------------------------------------------------------------------------
(* A call in progress: the handler on top of the stack returns             *)

TopFn == IF stack = <<>> THEN "" ELSE stack[Len(stack)].fn

\* a listener's handler returns, and the C code runs on to the next handler
\* it calls or to the return of the public call
HandlerReturn ==
    /\ TopFn = "handler"
    /\ Becomes(resume(Pop(Cur)))
    /\ UNCHANGED rvars

----------------------------------------------------------------------------
(* Specifications                                                          *)

\* the wire of the resolver on its own: the fields wire_update() uses
resolver_wire ==
    [strength |-> new_wire.strength, value_mode |-> new_wire.value_mode,
     value |-> new_wire.value, is_conflict |-> new_wire.is_conflict,
     changed |-> new_wire.changed]

ROff ==
    /\ rdrv = <<>>
    /\ rwire = resolver_wire
    /\ rpc = "off"

recorded_wire == [new_wire EXCEPT !.listeners = <<Listener(recorder, 1)>>]

\* Spec: two wires, each with a recording listener, and two drivers; the
\* program attaches, detaches and drives them, singly and in batches
Init ==
    /\ wire = [w \in Wires |-> recorded_wire]
    /\ driver = [d \in Drivers |-> new_driver]
    /\ stack = <<>>
    /\ call = NoCall
    /\ multi = [o \in Tokens |-> no_multi]
    /\ irq = no_irq
    /\ rec = no_rec
    /\ spare = no_spare
    /\ ROff

Next ==
    \/ Attach
    \/ Detach
    \/ DriveDigital(BatchDigital)
    \/ MultiDrive
    \/ Return
    \/ HandlerReturn

Spec == Init /\ [][Next]_vars

\* SpecGraph: nothing is allocated at first; the program allocates, frees,
\* attaches, detaches, listens and drives
InitGraph ==
    /\ wire = [w \in Wires |-> no_wire]
    /\ driver = [d \in Drivers |-> no_driver]
    /\ stack = <<>>
    /\ call = NoCall
    /\ multi = [o \in Tokens |-> no_multi]
    /\ irq = no_irq
    /\ rec = no_rec
    /\ spare = no_spare
    /\ ROff

NextGraph ==
    \/ AllocateWire
    \/ AllocateWireDriver
    \/ FreeWire
    \/ FreeWireDriver
    \/ Attach
    \/ Detach
    \/ Listen
    \/ Unlisten
    \/ DriveDigital(GraphDigital)
    \/ Return
    \/ HandlerReturn

SpecGraph == InitGraph /\ [][NextGraph]_vars

\* SpecLeaf: one wire with a recording listener and two drivers, driven
\* digitally and in analogue mode at every strength of the inputs
InitLeaf ==
    /\ wire = [w \in Wires |-> IF w = 1 THEN recorded_wire ELSE no_wire]
    /\ driver = [d \in Drivers |-> new_driver]
    /\ stack = <<>>
    /\ call = NoCall
    /\ multi = [o \in Tokens |-> no_multi]
    /\ irq = no_irq
    /\ rec = no_rec
    /\ spare = no_spare
    /\ ROff

NextLeaf ==
    \/ Attach
    \/ Detach
    \/ DriveDigital(LeafDigital)
    \/ DriveAnalogue(LeafAnalogue)
    \/ Return
    \/ HandlerReturn

SpecLeaf == InitLeaf /\ [][NextLeaf]_vars

\* SpecResolver: wire_update() on its own.  A wire starts with any list of
\* attached drivers in any drive states; wire_update() resolves it,
\* wire_notify_if_changed() clears the change flag, and a driver is driven
\* to another state before the next wire_update()
ResolverStates ==
    {[strength |-> s, value_mode |-> x[1], value |-> x[2]] :
        s \in {STRENGTH_HI_Z, STRENGTH_PULL, STRENGTH_STRONG},
        x \in {<<VALUE_MODE_D, 0>>, <<VALUE_MODE_D, 1>>, <<VALUE_MODE_A, 1>>}}

MOff ==
    /\ wire = [w \in Wires |-> no_wire]
    /\ driver = [d \in Drivers |-> no_driver]
    /\ stack = <<>>
    /\ call = NoCall
    /\ multi = [o \in Tokens |-> no_multi]
    /\ irq = no_irq
    /\ rec = no_rec
    /\ spare = no_spare

InitResolver ==
    /\ MOff
    /\ rdrv \in SeqUpTo(ResolverStates, MaxResolve)
    /\ rwire = resolver_wire
    /\ rpc = "in"

\* wire_update(wire)
RUpdate ==
    /\ rpc = "in"
    /\ rwire' = wire_update(rwire, rdrv)
    /\ rpc' = "out"
    /\ UNCHANGED <<rdrv, mvars>>

\* wire_notify_if_changed(wire), for a wire without listeners
RNotify ==
    /\ rpc = "out"
    /\ rwire' = [rwire EXCEPT !.changed = FALSE]
    /\ rpc' = "idle"
    /\ UNCHANGED <<rdrv, mvars>>

\* phase 1 of qemu_wire_multi_drive for one attached driver
RDrive ==
    /\ rpc = "idle"
    /\ \E k \in 1..Len(rdrv), x \in ResolverStates :
          /\ x # rdrv[k]
          /\ rdrv' = [rdrv EXCEPT ![k] = x]
    /\ rpc' = "in"
    /\ UNCHANGED <<rwire, mvars>>

NextResolver ==
    \/ RUpdate
    \/ RNotify
    \/ RDrive

SpecResolver == InitResolver /\ [][NextResolver]_vars

----------------------------------------------------------------------------
(* The public calls with any arguments, NULL among them                    *)

WiresOrNull == LiveWires \cup {NULL}
DriversOrNull == LiveDrivers \cup {NULL}

AttachAny ==
    /\ Idle
    /\ \E w \in WiresOrNull, d \in DriversOrNull :
          /\ w # NULL => Len(wire[w].attachments) < MaxAttach
          /\ Becomes(wire_attach(Enter(<<"attach", w, d>>), w, d))
    /\ UNCHANGED rvars

DetachAny ==
    /\ Idle
    /\ \E w \in WiresOrNull, d \in DriversOrNull :
          Becomes(resume(wire_detach(Enter(<<"detach", w, d>>), w, d)))
    /\ UNCHANGED rvars

DriveAny ==
    /\ Idle
    /\ \E d \in DriversOrNull, x \in GraphDigital :
          LET ds == <<Drive(d, x[1], VALUE_MODE_D, IF x[2] THEN 1 ELSE 0)>>
          IN Becomes(resume(wire_drive(Enter(<<"multi_drive", ds>>),
                                       d, x[1], x[2])))
    /\ UNCHANGED rvars

ListenAny ==
    /\ Idle
    /\ \E w \in WiresOrNull, o \in Opaques :
          /\ w # NULL => Len(wire[w].listeners) < MaxListen
          /\ Becomes(wire_listen(Enter(<<"listen", w, o>>), w,
                                 Listener(recorder, o)))
    /\ UNCHANGED rvars

UnlistenAny ==
    /\ Idle
    /\ \E w \in WiresOrNull, o \in Opaques :
          Becomes(wire_unlisten(Enter(<<"unlisten", w, o>>), w,
                                Listener(recorder, o)))
    /\ UNCHANGED rvars

\* qemu_free_wire(NULL)
FreeWireNull ==
    /\ Idle
    /\ Becomes(resume(free_wire(Enter(<<"free_wire", NULL>>), NULL)))
    /\ UNCHANGED rvars

\* qemu_free_wiredriver(NULL)
FreeWireDriverNull ==
    /\ Idle
    /\ Becomes(resume(free_wiredriver(Enter(<<"free_wiredriver", NULL>>),
                                      NULL)))
    /\ UNCHANGED rvars

\* the four sensing functions are called for one wire
SenseAny ==
    /\ Idle
    /\ \E w \in WiresOrNull :
          Becomes([Enter(<<"sense", w>>) EXCEPT !.call.ret = sensed(Cur, w)])
    /\ UNCHANGED rvars

\* SpecNull: the wires and drivers of Spec; the program calls the public
\* functions with NULL for the wire, for the driver or for both
NextNull ==
    \/ AttachAny
    \/ DetachAny
    \/ DriveAny
    \/ ListenAny
    \/ UnlistenAny
    \/ FreeWireNull
    \/ FreeWireDriverNull
    \/ SenseAny
    \/ Return
    \/ HandlerReturn

SpecNull == Init /\ [][NextNull]_vars

----------------------------------------------------------------------------
(* A batch applied twice                                                   *)

\* qemu_wire_multi_drive(drives, 2) has returned and the program calls it
\* again with the same descriptors
MultiDriveAgain ==
    /\ Returned
    /\ ~call.fault
    /\ call.op[1] = "multi_drive"
    /\ Len(call.op) = 2
    /\ LET ds == call.op[2]
       IN Becomes(resume(multi_drive(Enter(<<"multi_drive", ds, "again">>),
                                     ds)))
    /\ UNCHANGED rvars

\* SpecTwice: the wires and drivers of Spec; the program attaches, detaches
\* and applies batches, some of them twice in a row
NextTwice ==
    \/ Attach
    \/ Detach
    \/ MultiDrive
    \/ MultiDriveAgain
    \/ Return
    \/ HandlerReturn

SpecTwice == Init /\ [][NextTwice]_vars

----------------------------------------------------------------------------
(* Sensing wires of any intrinsic value                                    *)

\* the intrinsic values the program sets: odd and even, zero, below zero
Intrinsics == {-3, -2, 0, 3, 4}

\* (strength, aval) of qemu_wire_drive_a around half of those values
SenseAnalogue == {STRENGTH_HI_Z, STRENGTH_PULL} \X {-2, -1, 0, 1, 2}

\* qemu_set_wire_intrinsic(wire, v)
set_wire_intrinsic(st, w, v) ==
    IF w = NULL THEN st ELSE [st EXCEPT !.wire[w].intrinsic = v]

SetIntrinsic ==
    /\ Idle
    /\ \E w \in LiveWires, v \in Intrinsics :
          Becomes(set_wire_intrinsic(Enter(<<"set_intrinsic", w, v>>), w, v))
    /\ UNCHANGED rvars

\* SpecSense: the wire and drivers of SpecLeaf; the program sets the
\* intrinsic value, attaches, detaches and drives in both modes
NextSense ==
    \/ SetIntrinsic
    \/ Attach
    \/ Detach
    \/ DriveDigital(GraphDigital)
    \/ DriveAnalogue(SenseAnalogue)
    \/ Return
    \/ HandlerReturn

SpecSense == InitLeaf /\ [][NextSense]_vars

----------------------------------------------------------------------------
(* Sensing and listening to several wires                                  *)

\* the wires arrays of qemu_wire_multi_sense and qemu_wire_multi_listen:
\* none, one, two, one of them NULL, and one more than uint32_t has bits
WireArrays ==
    {<<>>, <<1>>, <<1, 2>>, <<2, NULL>>,
     [i \in 1..(UINT32_BITS + 1) |-> IF i <= UINT32_BITS THEN 1 ELSE 2]}

\* what the value of a struct multi_listener from g_malloc may hold
UninitValues == {{}, {0}}

\* (strength, dval) and (strength, aval) that drive the watched wires
MultiDigital ==
    {<<STRENGTH_HI_Z, FALSE>>, <<STRENGTH_PULL, FALSE>>,
     <<STRENGTH_PULL, TRUE>>}
MultiAnalogue == {<<STRENGTH_PULL, 1>>}

\* qemu_wire_multi_sense(wires, n, &weakest_strength)
MultiSense ==
    /\ Idle
    /\ \E ws \in WireArrays :
          Becomes([Enter(<<"multi_sense", ws>>) EXCEPT
                      !.call.ret = wire_multi_sense(Cur, ws, Len(ws))])
    /\ UNCHANGED rvars

\* qemu_wire_multi_listen(wires, n, recorder_multi_handler, opaque) with
\* wires in A
MultiListen(A) ==
    /\ Idle
    /\ \E o \in Tokens, ws \in A, v \in UninitValues :
          /\ multi[o] = no_multi
          /\ Becomes(wire_multi_listen(Enter(<<"multi_listen", ws, o>>),
                                       o, ws, v))
    /\ UNCHANGED rvars

\* qemu_wire_multi_unlisten(token)
MultiUnlisten ==
    /\ Idle
    /\ \E o \in Tokens :
          /\ multi[o] # no_multi
          /\ Becomes(wire_multi_unlisten(Enter(<<"multi_unlisten", o>>), o))
    /\ UNCHANGED rvars

\* SpecMulti: the wires of tests/test-wire.c test_wire_multi, driver 1
\* attached to both and driver 2 to wire 2, before anything is driven; the
\* program drives and detaches them, senses the wires together and watches
\* them with a composite listener
InitMulti ==
    /\ wire = [w \in Wires |->
                  [new_wire EXCEPT
                      !.attachments = IF w = 1 THEN <<1>> ELSE <<1, 2>>]]
    /\ driver = [d \in Drivers |->
                    [new_driver EXCEPT
                        !.wires = IF d = 1 THEN <<1, 2>> ELSE <<2>>,
                        !.ref = IF d = 1 THEN 3 ELSE 2]]
    /\ stack = <<>>
    /\ call = NoCall
    /\ multi = [o \in Tokens |-> no_multi]
    /\ irq = no_irq
    /\ rec = no_rec
    /\ spare = no_spare
    /\ ROff

NextMulti ==
    \/ Detach
    \/ DriveDigital(MultiDigital)
    \/ DriveAnalogue(MultiAnalogue)
    \/ MultiSense
    \/ MultiListen(WireArrays)
    \/ MultiUnlisten
    \/ Return
    \/ HandlerReturn

SpecMulti == InitMulti /\ [][NextMulti]_vars

\* the wires arrays of SpecBundle: two wires, one wire twice, a NULL
BundleArrays == {<<1, 2>>, <<2, 2>>, <<1, NULL>>}

\* SpecBundle: both drivers attached to both wires; the program detaches
\* and drives them, singly and in batches, and watches the wires with a
\* composite listener
InitBundle ==
    /\ wire = [w \in Wires |-> [new_wire EXCEPT !.attachments = <<1, 2>>]]
    /\ driver = [d \in Drivers |->
                    [new_driver EXCEPT !.wires = <<1, 2>>, !.ref = 3]]
    /\ stack = <<>>
    /\ call = NoCall
    /\ multi = [o \in Tokens |-> no_multi]
    /\ irq = no_irq
    /\ rec = no_rec
    /\ spare = no_spare
    /\ ROff

NextBundle ==
    \/ Detach
    \/ DriveAnalogue(MultiAnalogue)
    \/ MultiDrive
    \/ MultiListen(BundleArrays)
    \/ MultiUnlisten
    \/ Return
    \/ HandlerReturn

SpecBundle == InitBundle /\ [][NextBundle]_vars

----------------------------------------------------------------------------
(* Listeners that call back into the library                               *)

\* deepest C call stack, in frames, at which a handler still calls back
MaxDepth == 4

\* a handler that makes one library call before it returns
mutator == "mutator_handler"

\* the mutator's handler is entered and has not made its call yet
InMutator ==
    /\ TopFn = "handler"
    /\ stack[Len(stack)].lis.handler = mutator
    /\ ~stack[Len(stack)].acted
    /\ Len(stack) < MaxDepth

\* the state in which the handler on top has made its call
Acted == [Cur EXCEPT !.stack[Len(stack)].acted = TRUE]

\* the handler calls qemu_wire_detach(w, d)
MutatorDetach ==
    /\ InMutator
    /\ \E w \in LiveWires, d \in LiveDrivers :
          Becomes(resume(wire_detach(Acted, w, d)))
    /\ UNCHANGED rvars

\* the handler calls qemu_wire_attach(w, d)
MutatorAttach ==
    /\ InMutator
    /\ \E w \in LiveWires, d \in LiveDrivers :
          /\ Len(wire[w].attachments) < MaxAttach
          /\ Becomes(wire_attach(Acted, w, d))
    /\ UNCHANGED rvars

\* the handler calls qemu_wire_drive(d, strength, dval) for a driver that is
\* not attached to the wire it was called for
MutatorDrive ==
    /\ InMutator
    /\ \E d \in LiveDrivers, x \in GraphDigital :
          /\ stack[Len(stack)].wire \notin Range(driver[d].wires)
          /\ Becomes(resume(wire_drive(Acted, d, x[1], x[2])))
    /\ UNCHANGED rvars

\* the handler unregisters itself: qemu_wire_unlisten(wire, handler, opaque)
MutatorUnlisten ==
    /\ InMutator
    /\ LET f == stack[Len(stack)]
       IN Becomes(wire_unlisten(Acted, f.wire, f.lis))
    /\ UNCHANGED rvars

\* SpecReentrant: wire 1 has a listener that calls back into the library,
\* wire 2 a recording listener; the program attaches, detaches and drives
InitReentrant ==
    /\ wire = [w \in Wires |->
                  [new_wire EXCEPT !.listeners =
                      <<Listener(IF w = 1 THEN mutator ELSE recorder, 1)>>]]
    /\ driver = [d \in Drivers |-> new_driver]
    /\ stack = <<>>
    /\ call = NoCall
    /\ multi = [o \in Tokens |-> no_multi]
    /\ irq = no_irq
    /\ rec = no_rec
    /\ spare = no_spare
    /\ ROff

NextReentrant ==
    \/ Attach
    \/ Detach
    \/ DriveDigital(GraphDigital)
    \/ Return
    \/ HandlerReturn
    \/ MutatorDetach
    \/ MutatorAttach
    \/ MutatorDrive
    \/ MutatorUnlisten

SpecReentrant == InitReentrant /\ [][NextReentrant]_vars

----------------------------------------------------------------------------
(* Listeners that unregister listeners from their callback                 *)

\* the opaque pointers of the unregistering listeners
SweepOpaques == {1, 2, 3}

\* the handler on top of the stack calls qemu_wire_unlisten(wire, handler,
\* opaque) for itself or for a listener registered after it
SelfUnlisten ==
    /\ TopFn = "handler"
    /\ stack[Len(stack)].lis.handler = unlistener
    /\ ~stack[Len(stack)].acted
    /\ LET f == stack[Len(stack)]
           ls == wire[f.wire].listeners
       IN \E k \in (last_index(ls, f.lis) + 1)..Len(ls) :
              Becomes(wire_unlisten(Acted, f.wire, ls[k]))
    /\ UNCHANGED rvars

\* qemu_wire_listen(wire, handler, opaque) of a listener not registered
Relisten ==
    /\ Idle
    /\ \E o \in SweepOpaques :
          /\ Listener(unlistener, o) \notin Range(wire[1].listeners)
          /\ Becomes(wire_listen(Enter(<<"listen", 1, o>>), 1,
                                 Listener(unlistener, o)))
    /\ UNCHANGED rvars

\* SpecSweep: wire 1 has driver 1 attached and three listeners that may
\* unregister listeners from their callback; the program drives the wire
\* and registers listeners again
InitSweep ==
    /\ wire = [w \in Wires |->
                  IF w = 1
                  THEN [new_wire EXCEPT
                           !.attachments = <<1>>,
                           !.listeners = <<Listener(unlistener, 1),
                                           Listener(unlistener, 2),
                                           Listener(unlistener, 3)>>]
                  ELSE new_wire]
    /\ driver = [d \in Drivers |->
                    IF d = 1
                    THEN [new_driver EXCEPT !.wires = <<1>>, !.ref = 2]
                    ELSE new_driver]
    /\ stack = <<>>
    /\ call = NoCall
    /\ multi = [o \in Tokens |-> no_multi]
    /\ irq = no_irq
    /\ rec = no_rec
    /\ spare = no_spare
    /\ ROff

NextSweep ==
    \/ DriveDigital(GraphDigital)
    \/ Relisten
    \/ SelfUnlisten
    \/ Return
    \/ HandlerReturn

SpecSweep == InitSweep /\ [][NextSweep]_vars

\* the handler on top of the stack calls qemu_wire_unlisten(wire, handler,
\* opaque) for any listener of the wire, any number of times; earlier is not
\* in the source: the calls that delete an index the sweep has yet to read
AnyUnlisten ==
    /\ TopFn = "handler"
    /\ stack[Len(stack)].lis.handler = unlistener
    /\ LET f == stack[Len(stack)]
           ls == wire[f.wire].listeners
           i == stack[Len(stack) - 1].i
       IN \E k \in 1..Len(ls) :
              Becomes(wire_unlisten(
                          [Cur EXCEPT !.call.earlier =
                                          IF k <= i THEN @ + 1 ELSE @],
                          f.wire, ls[k]))
    /\ UNCHANGED rvars

\* SpecUnregister: SpecSweep with callbacks that unregister any listeners
NextUnregister ==
    \/ DriveDigital(GraphDigital)
    \/ Relisten
    \/ AnyUnlisten
    \/ Return
    \/ HandlerReturn

SpecUnregister == InitSweep /\ [][NextUnregister]_vars

----------------------------------------------------------------------------
(* Listening and unlistening with any handler and opaque pointer           *)

\* longest listener list of SpecListen
MaxEntries == 3

\* the listeners the program registers, and one it never registers
Registered == {Listener(h, o) : h \in {recorder, unlistener}, o \in {1, 2}}
NeverRegistered == Listener(recorder, 3)

\* qemu_wire_listen(wire, handler, opaque), also of a listener that is
\* registered already
ListenEntry ==
    /\ Idle
    /\ Len(wire[1].listeners) < MaxEntries
    /\ \E lis \in Registered :
          Becomes(wire_listen(Enter(<<"listen", 1, lis>>), 1, lis))
    /\ UNCHANGED rvars

\* qemu_wire_unlisten(wire, handler, opaque)
UnlistenEntry ==
    /\ Idle
    /\ \E lis \in Registered \cup {NeverRegistered} :
          Becomes(wire_unlisten(Enter(<<"unlisten", 1, lis>>), 1, lis))
    /\ UNCHANGED rvars

\* SpecListen: the program registers and unregisters listeners of wire 1
InitListen ==
    /\ wire = [w \in Wires |-> new_wire]
    /\ driver = [d \in Drivers |-> new_driver]
    /\ stack = <<>>
    /\ call = NoCall
    /\ multi = [o \in Tokens |-> no_multi]
    /\ irq = no_irq
    /\ rec = no_rec
    /\ spare = no_spare
    /\ ROff

NextListen ==
    \/ ListenEntry
    \/ UnlistenEntry
    \/ Return

SpecListen == InitListen /\ [][NextListen]_vars

----------------------------------------------------------------------------
(* The IRQ helpers                                                         *)

STRENGTH_DEFAULT == STRENGTH_PULL

\* qemu_wire_driver_irq_handler(opaque, n, level)
wire_driver_irq_handler(st, d, level) ==
    wire_drive(st, d, STRENGTH_DEFAULT, level # 0)

\* qemu_wire_listen_irq(wire, irqp)
wire_listen_irq(st, w, irqp) == wire_listen(st, w, Listener(irq_handler, irqp))

\* qemu_wire_unlisten_irq(wire, irqp)
wire_unlisten_irq(st, w, irqp) ==
    wire_unlisten(st, w, Listener(irq_handler, irqp))

\* the levels the IRQ of a driver is set to
IrqLevels == {0, 1, 2}

\* (strength, dval) and (strength, aval) of the drives beside the IRQ
IrqDigital == {<<STRENGTH_HI_Z, FALSE>>, <<STRENGTH_STRONG, FALSE>>}
IrqAnalogue == {<<STRENGTH_STRONG, WIRE_INTRINSIC_DEFAULT>>}

\* the IRQ made by qemu_wire_driver_irq(driver, n) is set to a level
DriverIrq ==
    /\ Idle
    /\ \E d \in LiveDrivers, level \in IrqLevels :
          LET ds == <<Drive(d, STRENGTH_DEFAULT, VALUE_MODE_D,
                            IF level # 0 THEN 1 ELSE 0)>>
          IN Becomes(resume(wire_driver_irq_handler(
                                Enter(<<"multi_drive", ds>>), d, level)))
    /\ UNCHANGED rvars

ListenIrq ==
    /\ Idle
    /\ Len(wire[1].listeners) < MaxListen
    /\ Becomes(wire_listen_irq(Enter(<<"listen_irq", 1, IRQP>>), 1, IRQP))
    /\ UNCHANGED rvars

UnlistenIrq ==
    /\ Idle
    /\ Becomes(wire_unlisten_irq(Enter(<<"unlisten_irq", 1, IRQP>>), 1, IRQP))
    /\ UNCHANGED rvars

\* the program stores a qemu_irq, or NULL, where irqp points
StoreIrq ==
    /\ Idle
    /\ \E i \in {NULL, 1} :
          /\ i # irq.p
          /\ irq' = [irq EXCEPT !.p = i]
    /\ UNCHANGED <<wire, driver, stack, call, multi, rec, spare>>
    /\ UNCHANGED rvars

\* SpecIrq: wire 1 has both drivers attached; the program links the wire to
\* the IRQ stored where irqp points, and drives the drivers directly and
\* through their IRQs
InitIrq ==
    /\ wire = [w \in Wires |->
                  IF w = 1 THEN [new_wire EXCEPT !.attachments = <<1, 2>>]
                  ELSE new_wire]
    /\ driver = [d \in Drivers |->
                    [new_driver EXCEPT !.wires = <<1>>, !.ref = 2]]
    /\ stack = <<>>
    /\ call = NoCall
    /\ multi = [o \in Tokens |-> no_multi]
    /\ irq \in {[no_irq EXCEPT !.level = l] : l \in {0, 1}}
    /\ rec = no_rec
    /\ spare = no_spare
    /\ ROff

NextIrq ==
    \/ ListenIrq
    \/ UnlistenIrq
    \/ StoreIrq
    \/ DriverIrq
    \/ DriveDigital(IrqDigital)
    \/ DriveAnalogue(IrqAnalogue)
    \/ Return
    \/ HandlerReturn

SpecIrq == InitIrq /\ [][NextIrq]_vars

----------------------------------------------------------------------------
(* Listeners that drive each other's wires                                 *)

\* the frames the C stack holds: a call that needs more kills the program
StackLimit == 9

\* the handler on top of the stack calls qemu_wire_drive(d, strength, dval)
\* for a driver that is not attached to the wire it was called for; nested
\* counts these calls, it is not in the source
CallbackDrive ==
    /\ TopFn = "handler"
    /\ stack[Len(stack)].lis.handler = mutator
    /\ ~stack[Len(stack)].acted
    /\ \E d \in LiveDrivers, x \in GraphDigital :
          /\ stack[Len(stack)].wire \notin Range(driver[d].wires)
          /\ LET nx == resume(wire_drive([Acted EXCEPT !.call.nested = @ + 1],
                                         d, x[1], x[2]))
             IN Becomes(IF Len(nx.stack) > StackLimit THEN Fault(nx)
                        ELSE nx)
    /\ UNCHANGED rvars

\* SpecRing: driver 1 is attached to wire 1 and driver 2 to wire 2, and the
\* listener of each wire may drive the driver of the other wire from its
\* callback
InitRing ==
    /\ wire = [w \in Wires |->
                  [new_wire EXCEPT !.attachments = <<w>>,
                                   !.listeners = <<Listener(mutator, 1)>>]]
    /\ driver = [d \in Drivers |->
                    [new_driver EXCEPT !.wires = <<d>>, !.ref = 2]]
    /\ stack = <<>>
    /\ call = NoCall
    /\ multi = [o \in Tokens |-> no_multi]
    /\ irq = no_irq
    /\ rec = no_rec
    /\ spare = no_spare
    /\ ROff

NextRing ==
    \/ DriveDigital(GraphDigital)
    \/ MultiDrive
    \/ Detach
    \/ FreeWire
    \/ FreeWireDriver
    \/ CallbackDrive
    \/ Return
    \/ HandlerReturn

SpecRing == InitRing /\ [][NextRing]_vars

----------------------------------------------------------------------------
(* A listener that drives the driver of a sister wire                      *)

\* SpecSister: driver 1 is attached to wire 1 and driver 2 to wire 2; the
\* listener of wire 1 may drive driver 2 from its callback and the listener
\* of wire 2 records; the program drives the drivers one by one and in
\* batches
InitSister ==
    /\ wire = [w \in Wires |->
                  [new_wire EXCEPT
                      !.attachments = <<w>>,
                      !.listeners =
                          <<Listener(IF w = 1 THEN mutator ELSE recorder, 1)>>]]
    /\ driver = [d \in Drivers |->
                    [new_driver EXCEPT !.wires = <<d>>, !.ref = 2]]
    /\ stack = <<>>
    /\ call = NoCall
    /\ multi = [o \in Tokens |-> no_multi]
    /\ irq = no_irq
    /\ rec = no_rec
    /\ spare = no_spare
    /\ ROff

NextSister ==
    \/ DriveDigital(GraphDigital)
    \/ MultiDrive
    \/ MutatorDrive
    \/ Return
    \/ HandlerReturn

SpecSister == InitSister /\ [][NextSister]_vars

----------------------------------------------------------------------------
(* Two composite listeners that differ in what g_malloc left in value      *)

\* the tokens of the two listeners
TwinTokens == {1, 2}

\* struct multi_listener as qemu_wire_multi_listen leaves it, for the wires
\* ws and with v in the value it does not initialise
registered(ws, v) ==
    [n |-> Len(ws), wires |-> ws, value |-> v,
     weakest_strength |-> STRENGTH_HI_Z, in_conflict |-> FALSE,
     seen |-> [i \in 1..Len(ws) |->
                  [d |-> FALSE, hi_z |-> TRUE, conflict |-> FALSE]]]

\* qemu_wire_multi_listen(wires, n, recorder_multi_handler, opaque): the
\* first listener
TwinListen ==
    /\ Idle
    /\ \A o \in TwinTokens : multi[o] = no_multi
    /\ \E ws \in BundleArrays, v \in UninitValues :
          Becomes(wire_multi_listen(Enter(<<"multi_listen", ws, 1>>),
                                    1, ws, v))
    /\ UNCHANGED rvars

\* the same call again for the same wires, made before the first struct
\* has been written to: the second listener
TwinListenAgain ==
    /\ Idle
    /\ multi[2] = no_multi
    /\ \E v1 \in UninitValues, v2 \in UninitValues :
          /\ multi[1] # no_multi
          /\ multi[1] = registered(multi[1].wires, v1)
          /\ Becomes(wire_multi_listen(
                         Enter(<<"multi_listen", multi[1].wires, 2>>),
                         2, multi[1].wires, v2))
    /\ UNCHANGED rvars

\* qemu_wire_multi_unlisten(token) of both listeners' tokens, one by one
TwinUnlisten ==
    /\ Idle
    /\ \E o \in TwinTokens :
          /\ multi[o] # no_multi
          /\ o = 1 => multi[2] = no_multi
          /\ Becomes(wire_multi_unlisten(Enter(<<"multi_unlisten", o>>), o))
    /\ UNCHANGED rvars

\* SpecTwin: the wires and drivers of SpecBundle, watched by two composite
\* listeners registered for the same wires
InitTwin ==
    /\ wire = [w \in Wires |-> [new_wire EXCEPT !.attachments = <<1, 2>>]]
    /\ driver = [d \in Drivers |->
                    [new_driver EXCEPT !.wires = <<1, 2>>, !.ref = 3]]
    /\ stack = <<>>
    /\ call = NoCall
    /\ multi = [o \in TwinTokens |-> no_multi]
    /\ irq = no_irq
    /\ rec = no_rec
    /\ spare = no_spare
    /\ ROff

NextTwin ==
    \/ Detach
    \/ DriveDigital(MultiDigital)
    \/ TwinListen
    \/ TwinListenAgain
    \/ TwinUnlisten
    \/ Return
    \/ HandlerReturn

SpecTwin == InitTwin /\ [][NextTwin]_vars

----------------------------------------------------------------------------
(* Claims about the resolver, under SpecResolver                           *)

\* the strongest strength among driver states ds, HI_Z if there is none
MaxStrength(ds) ==
    LET S == {ds[k].strength : k \in 1..Len(ds)} \cup {STRENGTH_HI_Z}
    IN CHOOSE m \in S : \A x \in S : x <= m

\* the indices of the drivers of ds at the strongest strength
Strongest(ds) == {k \in 1..Len(ds) : ds[k].strength = MaxStrength(ds)}

\* C3: after wire_update() the wire's strength is the maximum strength of its
\* attached drivers (HI_Z if none or all HI_Z); it is in conflict exactly
\* when two drivers at that maximum, not HI_Z, differ in mode or value; and
\* when it is not in conflict and not HI_Z its mode and value are those of a
\* driver at the maximum.
C3_Resolved ==
    rpc = "out" =>
        /\ rwire.strength = MaxStrength(rdrv)
        /\ rwire.is_conflict <=>
              /\ MaxStrength(rdrv) # STRENGTH_HI_Z
              /\ \E a, b \in Strongest(rdrv) :
                    \/ rdrv[a].value_mode # rdrv[b].value_mode
                    \/ rdrv[a].value # rdrv[b].value
        /\ (~rwire.is_conflict /\ rwire.strength # STRENGTH_HI_Z) =>
              \E k \in Strongest(rdrv) :
                 /\ rdrv[k].value_mode = rwire.value_mode
                 /\ rdrv[k].value = rwire.value

\* C3 witness: two drivers that conflict at one strength and a strictly
\* stronger third one; the wire has the third's strength and no conflict
C3_Witness ==
    /\ rpc = "out"
    /\ \E a, b, c \in 1..Len(rdrv) :
          /\ rdrv[a].strength = STRENGTH_PULL
          /\ rdrv[b].strength = STRENGTH_PULL
          /\ rdrv[a].value # rdrv[b].value
          /\ rdrv[c].strength = STRENGTH_STRONG
    /\ rwire.strength = STRENGTH_STRONG
    /\ ~rwire.is_conflict

\* C4 as claimed: every permutation of the attachments resolves to the same
\* tuple (strength, mode, value, conflict) as the wire holds.
C4_OrderIndependent ==
    rpc = "out" => \A p \in PermsOf(rdrv) : Resolver(p) = Cached(rwire)

\* C4 amended: every permutation of the attachments resolves to the same
\* strength and the same conflict flag, and to the same mode and value
\* whenever the wire is not in conflict.
C4_OrderIndependentUnlessConflict ==
    rpc = "out" =>
        \A p \in PermsOf(rdrv) :
            /\ Resolver(p).strength = rwire.strength
            /\ Resolver(p).is_conflict = rwire.is_conflict
            /\ ~rwire.is_conflict => Resolver(p) = Cached(rwire)

\* C4 witness: three drivers in three different states, two of them at the
\* strongest strength, resolved
C4_Witness ==
    /\ rpc = "out"
    /\ Len(rdrv) >= 3
    /\ \A a, b \in 1..Len(rdrv) : a # b => rdrv[a] # rdrv[b]
    /\ Cardinality(Strongest(rdrv)) >= 2
    /\ rwire.strength # STRENGTH_HI_Z

----------------------------------------------------------------------------
(* Claims about the attachment graph, under SpecGraph                      *)

\* C9: for every wire W and driver D, D occurs in W.attachments as many
\* times as W occurs in D.wires, whatever attach, detach, free_wire and
\* free_driver calls were made.
C9_Bidirectional ==
    \A w \in Wires, d \in Drivers :
        Count(d, wire[w].attachments) = Count(w, driver[d].wires)

\* C9 witness: a free_driver or free_wire call has returned that started
\* from a driver attached twice to one wire and once to the other
C9_Witness ==
    /\ Returned
    /\ call.op[1] \in {"free_wiredriver", "free_wire"}
    /\ \E d \in Drivers, w, x \in Wires :
          /\ w # x
          /\ Count(d, call.pre.wire[w].attachments) = 2
          /\ Count(d, call.pre.wire[x].attachments) = 1
          /\ \/ call.op = <<"free_wiredriver", d>>
             \/ call.op = <<"free_wire", w>>

\* C10 as claimed: for every driver D in a wire W's attachments, W occurs
\* exactly once in D.wires.
C10_ExactlyOnce ==
    \A w \in Wires, d \in Drivers :
        d \in Range(wire[w].attachments) => Count(w, driver[d].wires) = 1

\* C10 amended: for every driver D in a wire W's attachments, W occurs in
\* D.wires, and exactly once if D occurs exactly once in W.attachments.
C10_OnceIfAttachedOnce ==
    \A w \in Wires, d \in Drivers :
        /\ d \in Range(wire[w].attachments) => w \in Range(driver[d].wires)
        /\ Count(d, wire[w].attachments) = 1 =>
              Count(w, driver[d].wires) = 1

\* C10 witness: a detach has returned that left a driver, attached twice
\* to the wire before, attached once
C10_Witness ==
    /\ Returned
    /\ \E w \in Wires, d \in Drivers :
          /\ call.op = <<"detach", w, d>>
          /\ Count(d, call.pre.wire[w].attachments) = 2
          /\ Count(d, wire[w].attachments) = 1

\* C1 as claimed: when a public operation has returned, every wire's cached
\* tuple (strength, mode, value, conflict) is the Resolver's result for the
\* current states of the drivers in its attachments.
C1_CachedIsResolved ==
    Returned =>
        \A w \in Wires : Cached(wire[w]) = Resolver(attached_states(Cur, w))

----------------------------------------------------------------------------
(* Claims about qemu_wire_multi_drive(), under Spec                        *)

\* the drivers whose state the descriptors from k on change, applied in
\* order to the driver states drv
RECURSIVE batch_changed(_, _, _)
batch_changed(drv, drives, k) ==
    IF k > Len(drives) THEN {}
    ELSE LET wd == drives[k]
             d == wd.driver
         IN IF d = NULL \/ same_drive(drv[d], wd)
            THEN batch_changed(drv, drives, k + 1)
            ELSE {d} \cup
                 batch_changed([drv EXCEPT ![d].strength = wd.strength,
                                           ![d].value_mode = wd.value_mode,
                                           ![d].value = wd.value],
                               drives, k + 1)

InBatch == call # NoCall /\ call.op[1] = "multi_drive"

\* the drivers the batch in progress changed
BatchDrivers == batch_changed(call.pre.driver, call.op[2], 1)

\* the wires attached to at least one driver the batch in progress changed
Affected ==
    {w \in Wires :
        \E d \in BatchDrivers : d \in Range(call.pre.wire[w].attachments)}

\* the number of times the call in progress invoked a listener of wire w
Invocations(w) ==
    Cardinality({k \in 1..Len(call.events) : call.events[k].wire = w})

\* C5: when a batch_drive has returned, every wire attached to a driver the
\* batch changed was resolved exactly once and, if that set its change flag,
\* had its listeners swept once and each listener invoked once; no other
\* wire was resolved or notified.
C5_OncePerWire ==
    (Returned /\ InBatch) =>
        \A w \in Wires :
            /\ call.upd[w] = IF w \in Affected THEN 1 ELSE 0
            /\ call.flagged \subseteq Affected
            /\ call.swp[w] = IF w \in call.flagged THEN 1 ELSE 0
            /\ Invocations(w) =
                  IF w \in call.flagged THEN Len(wire[w].listeners) ELSE 0

\* C5 witness: a batch that changed both drivers has returned; both feed one
\* wire, one of them is attached twice to the other wire, and both wires
\* were flagged as changed
C5_Witness ==
    /\ Returned /\ InBatch
    /\ BatchDrivers = Drivers
    /\ \E w, x \in Wires, d \in Drivers :
          /\ Range(wire[w].attachments) = Drivers
          /\ wire[x].attachments = <<d, d>>
          /\ call.flagged = {w, x}

\* C6: whenever a listener's handler is entered during batch_drive, no wire
\* has driver_changed set and every wire attached to a driver the batch
\* changed holds the Resolver's result for the drivers' states.
C6_ResolvedBeforeNotified ==
    (TopFn = "handler" /\ InBatch) =>
        /\ \A w \in Wires : ~wire[w].driver_changed
        /\ \A w \in Affected :
              Cached(wire[w]) = Resolver(attached_states(Cur, w))

\* C6 witness: a handler is entered for one wire during a batch while the
\* other wire, resolved to another state by the batch, is not notified yet
C6_Witness ==
    /\ TopFn = "handler" /\ InBatch
    /\ \E x \in Affected :
          /\ x # stack[Len(stack)].wire
          /\ call.swp[x] = 0
          /\ wire[x].changed
          /\ Cached(wire[x]) # Cached(call.pre.wire[x])

----------------------------------------------------------------------------
(* Claims about the notification of leaf listeners, under SpecLeaf         *)

\* the change of a wire from cached tuple a to cached tuple b that a leaf
\* listener is told of
LeafChange(a, b) ==
    \/ a.is_conflict # b.is_conflict
    \/ (a.strength = STRENGTH_HI_Z) # (b.strength = STRENGTH_HI_Z)
    \/ /\ b.strength # STRENGTH_HI_Z
       /\ a.value_mode # b.value_mode \/ a.value # b.value

\* C7: when a drive or a detach has returned, each listener of a wire was
\* invoked once if the call re-resolved the wire and the conflict flag
\* toggled, or the strength crossed the HI_Z boundary, or the new strength is
\* not HI_Z and the mode or value differs from the cached one, and was not
\* invoked otherwise; so not when the wire stays HI_Z.
C7_NotifiedIffChanged ==
    (Returned /\ call.op[1] \in {"multi_drive", "detach"}) =>
        \A w \in Wires :
            /\ Invocations(w) =
                  IF /\ call.upd[w] > 0
                     /\ LeafChange(Cached(call.pre.wire[w]), Cached(wire[w]))
                  THEN Len(wire[w].listeners) ELSE 0
            /\ (/\ call.pre.wire[w].strength = STRENGTH_HI_Z
                /\ wire[w].strength = STRENGTH_HI_Z) => Invocations(w) = 0

\* C7 witness: a drive has returned that put the wire into conflict without
\* changing its strength, mode or value, and the listener was invoked
C7_Witness ==
    /\ Returned /\ InBatch
    /\ \E w \in Wires :
          /\ call.upd[w] = 1
          /\ wire[w].is_conflict /\ ~call.pre.wire[w].is_conflict
          /\ wire[w].strength = call.pre.wire[w].strength
          /\ wire[w].value_mode = call.pre.wire[w].value_mode
          /\ wire[w].value = call.pre.wire[w].value
          /\ Invocations(w) = 1

\* the call in progress is a drive of driver d, attached to wire w, that
\* changes only d's strength, between two levels that are not HI_Z
StrengthOnly(w, d) ==
    /\ InBatch
    /\ Len(call.op[2]) = 1
    /\ call.op[2][1].driver = d
    /\ d \in Range(call.pre.wire[w].attachments)
    /\ call.pre.driver[d].strength # STRENGTH_HI_Z
    /\ call.op[2][1].strength # STRENGTH_HI_Z
    /\ call.op[2][1].strength # call.pre.driver[d].strength
    /\ call.op[2][1].value_mode = call.pre.driver[d].value_mode
    /\ call.op[2][1].value = call.pre.driver[d].value

\* before the call in progress wire w was resolved, not in conflict, and d
\* was a strongest driver of it
WasStrongest(w, d) ==
    LET ds == [k \in 1..Len(call.pre.wire[w].attachments) |->
                  call.pre.driver[call.pre.wire[w].attachments[k]]]
    IN /\ Cached(call.pre.wire[w]) = Resolver(ds)
       /\ ~call.pre.wire[w].is_conflict
       /\ call.pre.driver[d].strength = MaxStrength(ds)

\* C8 as claimed: when the strongest driver of a wire that is not in
\* conflict changes only its strength, between two levels that are not HI_Z,
\* no listener of the wire is invoked.
C8_StrengthOnlyIsSilent ==
    Returned =>
        \A w \in Wires, d \in Drivers :
            (StrengthOnly(w, d) /\ WasStrongest(w, d)) => Invocations(w) = 0

\* after the call in progress no driver attached to wire w that is as
\* strong as d or stronger differs from d in mode or value
NoneDisagrees(w, d) ==
    \A k \in 1..Len(wire[w].attachments) :
        LET o == driver[wire[w].attachments[k]] IN
        o.strength >= driver[d].strength =>
            /\ o.value_mode = driver[d].value_mode
            /\ o.value = driver[d].value

\* C8 amended: when a driver changes only its strength, between two levels
\* that are not HI_Z, on a wire that is not in conflict and not HI_Z and
\* holds the driver's mode and value, and no attached driver at or above the
\* new strength differs from it in mode or value, no listener of the wire is
\* invoked.
C8_StrengthOnlyIsSilentIfUnopposed ==
    Returned =>
        \A w \in Wires, d \in Drivers :
            (/\ StrengthOnly(w, d)
             /\ ~call.pre.wire[w].is_conflict
             /\ call.pre.wire[w].strength # STRENGTH_HI_Z
             /\ call.pre.wire[w].value_mode = call.pre.driver[d].value_mode
             /\ call.pre.wire[w].value = call.pre.driver[d].value
             /\ NoneDisagrees(w, d)) => Invocations(w) = 0

\* C8 witness: a drive has returned that raised the strongest driver from
\* PULL to STRONG over a weaker driver of the other value; the wire was
\* re-resolved to STRONG and the listener was not invoked
C8_Witness ==
    /\ Returned
    /\ \E w \in Wires, d, o \in Drivers :
          /\ StrengthOnly(w, d) /\ WasStrongest(w, d) /\ NoneDisagrees(w, d)
          /\ o \in Range(wire[w].attachments)
          /\ driver[o].strength = STRENGTH_WEAK
          /\ driver[o].value # driver[d].value
          /\ call.pre.wire[w].strength = STRENGTH_PULL
          /\ wire[w].strength = STRENGTH_STRONG
          /\ call.upd[w] = 1
          /\ Invocations(w) = 0

----------------------------------------------------------------------------
(* Claims about listeners that call back, under SpecReentrant              *)

\* C2 as claimed: whenever no library call is in progress, no wire has
\* changed, driver_changed or in_callback set and no driver has changed set,
\* also when listeners attach, detach, unregister or drive from inside
\* their callback.
C2_FlagsClear ==
    stack = <<>> =>
        /\ \A w \in Wires : /\ ~wire[w].changed
                            /\ ~wire[w].driver_changed
                            /\ ~wire[w].in_callback
        /\ \A d \in Drivers : ~driver[d].changed

----------------------------------------------------------------------------
(* Claims about reference counts, under SpecGraph                          *)

\* the number of attachment entries of all wires that point at driver d
RECURSIVE AttachedIn(_, _)
AttachedIn(d, ws) ==
    IF ws = {} THEN 0
    ELSE LET w == CHOOSE x \in ws : TRUE
         IN Count(d, wire[w].attachments) + AttachedIn(d, ws \ {w})

\* C11: a driver's reference count is the one reference of the program that
\* allocated it plus the number of attachment entries that point at it; a
\* driver the program has freed has no reference and no attachment entry.
C11_RefCount ==
    /\ \A d \in Drivers :
          \/ driver[d].ref = 0 /\ AttachedIn(d, Wires) = 0
          \/ driver[d].ref = 1 + AttachedIn(d, Wires)
    /\ \A d \in Drivers :
          (Returned /\ call.op = <<"free_wiredriver", d>>) =>
              driver[d].ref = 0

\* C11 witness: a detach of a driver from a wire it was not attached to has
\* returned, and the driver holds the references of two attachment entries
C11_Witness ==
    /\ Returned
    /\ \E w \in Wires, d \in Drivers :
          /\ call.op = <<"detach", w, d>>
          /\ Count(d, call.pre.wire[w].attachments) = 0
          /\ AttachedIn(d, Wires) = 2
          /\ driver[d].ref = 3
          /\ call.pre.driver[d].ref = 3

----------------------------------------------------------------------------
(* Claims about NULL arguments, under SpecNull                             *)

\* the call in progress was given a NULL wire or a NULL driver
HasNull ==
    /\ call # NoCall
    /\ \/ call.op[1] \in {"attach", "detach"}
          /\ (call.op[2] = NULL \/ call.op[3] = NULL)
       \/ call.op[1] \in {"listen", "unlisten", "free_wire",
                          "free_wiredriver", "sense"}
          /\ call.op[2] = NULL
       \/ call.op[1] = "multi_drive" /\ call.op[2][1].driver = NULL

\* the call in progress is an attach or a detach of a NULL driver on a wire
NullDriverOnWire ==
    /\ call # NoCall
    /\ call.op[1] \in {"attach", "detach"}
    /\ call.op[2] # NULL
    /\ call.op[3] = NULL

\* C12 as claimed: no public call faults, whatever arguments are NULL.
C12_NullAccepted == ~Faulted

\* C12 amended: a call faults exactly when it attaches or detaches a NULL
\* driver on a wire that is not NULL; every other call with a NULL wire or
\* a NULL driver returns, changes no wire and no driver, invokes no
\* listener, and senses HI_Z, false, 0 and no conflict.
C12_NullIsNoOpButDriverOnWire ==
    Returned =>
        /\ call.fault <=> NullDriverOnWire
        /\ (HasNull /\ ~call.fault) =>
              /\ wire = call.pre.wire
              /\ driver = call.pre.driver
              /\ call.events = <<>>
              /\ call.op[1] = "sense" =>
                    /\ call.ret.d = [value |-> FALSE,
                                     strength |-> STRENGTH_HI_Z]
                    /\ call.ret.a = [value |-> 0, strength |-> STRENGTH_HI_Z]
                    /\ call.ret.strength = STRENGTH_HI_Z
                    /\ ~call.ret.conflicted

\* C12 witness: a detach of an attached, driving driver from the NULL wire
\* has returned
C12_Witness ==
    /\ Returned /\ ~call.fault
    /\ \E d \in Drivers :
          /\ call.op = <<"detach", NULL, d>>
          /\ driver[d].wires # <<>>
          /\ driver[d].strength # STRENGTH_HI_Z

----------------------------------------------------------------------------
(* Claims about the frame of attach and detach, under SpecLeaf             *)

\* the transient flags of a wire record
Flags(x) ==
    [changed |-> x.changed, driver_changed |-> x.driver_changed,
     in_callback |-> x.in_callback]

C14_DetachUnattachedIsNoOp ==
    \A w \in Wires, d \in Drivers :
        (/\ Returned
         /\ call.op = <<"detach", w, d>>
         /\ d \notin Range(call.pre.wire[w].attachments)) =>
            /\ wire[w].attachments = call.pre.wire[w].attachments
            /\ Cached(wire[w]) = Cached(call.pre.wire[w])
            /\ driver[d].wires = call.pre.driver[d].wires
            /\ driver[d].ref = call.pre.driver[d].ref
            /\ call.events = <<>>

----------------------------------------------------------------------------
(* Claims about a batch applied twice, under SpecTwice                     *)

\* the call in progress is the second application of a batch
Again == call # NoCall /\ call.op[1] = "multi_drive" /\ Len(call.op) = 3

\* the descriptors of the call in progress name no driver twice
OncePerDriver ==
    \A j, k \in 1..Len(call.op[2]) :
        (j # k /\ call.op[2][j].driver # NULL) =>
            call.op[2][j].driver # call.op[2][k].driver

\* C15: when the second of two applications of one batch has returned, it
\* has invoked no listener and every driver's state and every wire's cached
\* tuple are what they were after the first; if the batch names no driver
\* twice, every descriptor was skipped and no wire was re-resolved.
C15_SecondBatchIsNoOp ==
    (Returned /\ Again) =>
        /\ call.events = <<>>
        /\ driver = call.pre.driver
        /\ \A w \in Wires :
              /\ call.swp[w] = 0
              /\ Cached(wire[w]) = Cached(call.pre.wire[w])
              /\ OncePerDriver => call.upd[w] = 0

\* C15 witness: the second application of a batch has returned whose first
\* application changed both drivers and the cached tuples of both wires
C15_Witness ==
    /\ Returned /\ Again
    /\ call.op[2][1].driver # NULL
    /\ call.op[2][1].driver # call.op[2][2].driver
    /\ call.op[2][1].strength # STRENGTH_HI_Z
    /\ call.op[2][2].strength # STRENGTH_HI_Z
    /\ \A w \in Wires : /\ Range(wire[w].attachments) = Drivers
                        /\ wire[w].strength = STRENGTH_STRONG

----------------------------------------------------------------------------
(* Claims about sensing, under SpecLeaf                                    *)

\* the call in progress is a drive of driver d, attached to wire w, at a
\* strength that is not HI_Z and above that of every other driver attached
DroveStrongest(w, d) ==
    /\ InBatch
    /\ Len(call.op[2]) = 1
    /\ call.op[2][1].driver = d
    /\ call.op[2][1].strength # STRENGTH_HI_Z
    /\ d \in Range(wire[w].attachments)
    /\ \A k \in 1..Len(wire[w].attachments) :
          wire[w].attachments[k] # d =>
              driver[wire[w].attachments[k]].strength
                  < call.op[2][1].strength

\* C16 as claimed: when a drive of a wire's unique strongest driver at a
\* strength that is not HI_Z has returned, sensing the wire returns the
\* driven strength and: the driven boolean from sense after a digital drive,
\* the driven integer from sense_analogue after an analogue drive, and the
\* intrinsic or 0 from sense_analogue after a digital drive of true or false.
C16_RoundTrip ==
    \A w \in Wires, d \in Drivers :
        (Returned /\ DroveStrongest(w, d)) =>
            LET wd == call.op[2][1] IN
            /\ wire_sense(Cur, w).strength = wd.strength
            /\ wire_sense_a(Cur, w).strength = wd.strength
            /\ wd.value_mode = VALUE_MODE_D =>
                  /\ wire_sense(Cur, w).value = (wd.value = 1)
                  /\ wire_sense_a(Cur, w).value =
                        IF wd.value = 1 THEN wire[w].intrinsic ELSE 0
            /\ wd.value_mode = VALUE_MODE_A =>
                  wire_sense_a(Cur, w).value = wd.value

----------------------------------------------------------------------------
(* Claims about digital sensing of analogue values, under SpecSense        *)

\* C17: a wire in analogue mode senses digital true exactly when its value
\* is at least half of its intrinsic value, whatever the intrinsic value.
C17_AtLeastHalf ==
    \A w \in LiveWires :
        wire[w].value_mode = VALUE_MODE_A =>
            (wire_sense(Cur, w).value <=>
                2 * wire[w].value >= wire[w].intrinsic)

\* C18: a wire with no attachments senses HI_Z strength, digital false,
\* analogue 0 and not conflicted, whatever was attached and driven before.
C18_UnattachedSensesNothing ==
    \A w \in LiveWires :
        wire[w].attachments = <<>> =>
            sensed(Cur, w) =
                [d |-> [value |-> FALSE, strength |-> STRENGTH_HI_Z],
                 a |-> [value |-> 0, strength |-> STRENGTH_HI_Z],
                 strength |-> STRENGTH_HI_Z, conflicted |-> FALSE]

\* C18 witness: the last driver of a wire that sensed a driven analogue
\* value was detached, and the call returned
C18_Witness ==
    /\ Returned
    /\ call.op[1] = "detach"
    /\ \E w \in LiveWires :
          /\ call.op[2] = w
          /\ wire[w].attachments = <<>>
          /\ call.pre.wire[w].attachments # <<>>
          /\ call.pre.wire[w].strength # STRENGTH_HI_Z
          /\ call.pre.wire[w].value_mode = VALUE_MODE_A
          /\ call.pre.wire[w].value # 0

----------------------------------------------------------------------------
(* Claims about sensing and watching several wires, under SpecMulti        *)

\* the least of a non-empty set of strengths
Weakest(S) == CHOOSE x \in S : \A y \in S : x <= y

\* C19: multi_sense uses the first min(n, 32) wires only: bit i is the
\* digital sense of wire i, and the weakest strength is the least cached
\* strength of those wires, HI_Z when n = 0 or one of them is NULL.
C19_MultiSense ==
    (Returned /\ call.op[1] = "multi_sense") =>
        LET ws == call.op[2]
            m == IF Len(ws) < 32 THEN Len(ws) ELSE 32
        IN /\ call.ret.value =
                 {i \in 0..31 : i < m /\ wire_sense(Cur, ws[i + 1]).value}
           /\ call.ret.weakest =
                 IF m = 0 \/ \E k \in 1..m : ws[k] = NULL
                 THEN STRENGTH_HI_Z
                 ELSE Weakest({wire[ws[k]].strength : k \in 1..m})

\* C19 witness: 33 wires were sensed, all of them driven; the last of them
\* senses true and is not among the bits
C19_Witness ==
    /\ Returned
    /\ call.op[1] = "multi_sense"
    /\ Len(call.op[2]) = 33
    /\ wire_sense(Cur, call.op[2][33]).value
    /\ wire_sense(Cur, call.op[2][1]).value
    /\ call.ret.weakest # STRENGTH_HI_Z
    /\ call.ret.value = 0..31

\* the cases in which include/hw/wire.h lets the composite handler be
\* called, between what the watched wires sensed as before (b) and now (n)
ValueChanged(b, n) ==
    /\ \E i \in 1..Len(n) : b[i].d # n[i].d
    /\ \A i \in 1..Len(n) : ~n[i].hi_z

WentHiZ(b, n) ==
    /\ \E i \in 1..Len(n) : n[i].hi_z
    /\ \A i \in 1..Len(n) : ~b[i].hi_z

LeftHiZ(b, n) ==
    /\ \A i \in 1..Len(n) : ~n[i].hi_z
    /\ \E i \in 1..Len(n) : b[i].hi_z

ConflictAppeared(b, n) ==
    /\ \E i \in 1..Len(n) : n[i].conflict
    /\ \A i \in 1..Len(n) : ~b[i].conflict

ConflictsDisappeared(b, n) ==
    /\ \A i \in 1..Len(n) : ~n[i].conflict
    /\ \E i \in 1..Len(n) : b[i].conflict

Documented(e) ==
    \/ ValueChanged(e.before, e.now)
    \/ WentHiZ(e.before, e.now)
    \/ LeftHiZ(e.before, e.now)
    \/ ConflictAppeared(e.before, e.now)
    \/ ConflictsDisappeared(e.before, e.now)

\* the calls of the composite handler in the public call in progress
MultiEvents ==
    IF call = NoCall THEN {}
    ELSE {call.mevents[k] : k \in 1..Len(call.mevents)}

First32(x) ==
    SubSeq(x, 1, IF Len(x) > UINT32_BITS THEN UINT32_BITS ELSE Len(x))

----------------------------------------------------------------------------
(* Claims about the composite listener and batches, under SpecBundle       *)

InConflict(x) == \E i \in 1..Len(x) : x[i].conflict

\* the composite listeners that are registered
Listening == {o \in Tokens : multi[o] # no_multi}

\* C21: the composite handler that was called with a watched wire in
\* conflict is not called again while a watched wire is in conflict, and it
\* has been called again when a public call returns with no watched wire in
\* conflict.
C21_ConflictHysteresis ==
    /\ \A e \in MultiEvents : ~(InConflict(e.before) /\ InConflict(e.now))
    /\ stack = <<>> =>
          \A o \in Listening :
              InConflict(multi[o].seen) =>
                  InConflict(watched(Cur, multi[o].wires))

\* C21 witness: a call notified a watched wire whose conflict went away and
\* whose digital value changed; the other wire is still in conflict, and the
\* composite handler, last called in conflict, was not called
C21_Witness ==
    /\ Returned
    /\ call.mevents = <<>>
    /\ \E o \in Listening :
          /\ multi[o].n = 2
          /\ \A i \in 1..2 : multi[o].seen[i].conflict
          /\ \E i \in 1..2 :
                LET now == watched(Cur, multi[o].wires) IN
                /\ ~now[i].conflict
                /\ now[i].d # multi[o].seen[i].d
                /\ now[3 - i].conflict
                /\ call.swp[multi[o].wires[i]] > 0

\* C22: one drive or batch calls the composite handler of at most 32 wires
\* at most once, with the bits and the weakest strength that the watched
\* wires sense as when the drive has resolved them all.
C22_BatchCallsOnce ==
    (call # NoCall /\ call.op[1] = "multi_drive") =>
        \A o \in Listening :
            multi[o].n <= 32 =>
                LET ev == SelectSeq(call.mevents, LAMBDA e : e.opaque = o)
                    s == wire_multi_sense(Cur, multi[o].wires, multi[o].n)
                IN /\ Len(ev) <= 1
                   /\ \A k \in 1..Len(ev) :
                         /\ ev[k].value = s.value
                         /\ ev[k].weakest_strength = s.weakest

\* C22 witness: a batch of two drives changed both watched wires and
\* notified both; the composite handler was called once
C22_Witness ==
    /\ Returned
    /\ call.op[1] = "multi_drive"
    /\ Len(call.op[2]) = 2
    /\ Len(call.mevents) = 1
    /\ call.mevents[1].n = 2
    /\ \A w \in Wires :
          /\ call.swp[w] = 1
          /\ Cached(wire[w]) # Cached(call.pre.wire[w])
    /\ \E o \in Listening : multi[o].wires = <<1, 2>>

\* the composite listeners that wire w holds a leaf listener of
HeldBy(w) ==
    {wire[w].listeners[k].opaque :
        k \in {j \in 1..Len(wire[w].listeners) :
                  wire[w].listeners[j].handler = composite}}

\* C23: after multi_unlisten no wire holds a leaf listener of the composite
\* listener, also when a wire is watched twice, and its handler is not
\* called again.
C23_UnlistenRemovesAll ==
    /\ \A w \in Wires : HeldBy(w) \subseteq Listening
    /\ \A e \in MultiEvents : e.opaque \in Listening

\* C23 witness: a composite listener that watched wire 2 twice was
\* unlistened, and the call returned
C23_Witness ==
    /\ Returned
    /\ call.op[1] = "multi_unlisten"
    /\ Len(call.pre.wire[2].listeners) = 2
    /\ wire[2].listeners = <<>>
    /\ Listening = {}

----------------------------------------------------------------------------
(* Claims about the listeners of a wire, under SpecSweep                   *)

\* the opaque pointers of a sequence of listeners or of events
OpaquesOf(x) == [k \in 1..Len(x) |-> x[k].opaque]

Reverse(x) == [k \in 1..Len(x) |-> x[Len(x) + 1 - k]]

\* the handler on top of the stack unregisters a listener in this step
Unlistens ==
    /\ TopFn = "handler"
    /\ ~stack[Len(stack)].acted
    /\ stack' # <<>>
    /\ Len(stack') = Len(stack)
    /\ stack'[Len(stack)].acted

\* C24: a sweep calls the listeners of the wire in reverse registration
\* order, those unregistered by earlier calls no more; a listener that
\* unregisters itself or a later registered one makes the sweep skip none,
\* and every unlisten shrinks the list by exactly one.
C24_SweepInReverse ==
    /\ [](call # NoCall =>
            LET pre == Reverse(OpaquesOf(call.pre.wire[1].listeners))
                ev == OpaquesOf(call.events)
            IN /\ Len(ev) <= Len(pre)
               /\ ev = SubSeq(pre, 1, Len(ev))
               /\ (Returned /\ call.swp[1] > 0) => Len(ev) = Len(pre))
    /\ [][Unlistens =>
            Len(wire'[1].listeners) = Len(wire[1].listeners) - 1]_vars

\* C24 witness: the sweep called three listeners; the first called
\* unregistered itself and a later one unregistered one registered after it
C24_Witness ==
    /\ Returned
    /\ call.swp[1] = 1
    /\ Len(call.events) = 3
    /\ Len(wire[1].listeners) = 1
    /\ wire[1].listeners[1].opaque = call.events[2].opaque

----------------------------------------------------------------------------
(* Claims about unlisten, under SpecListen                                 *)

\* C25: unlisten removes the most recently registered listener with the
\* handler and the opaque pointer given, and no other; the other listeners
\* keep their order; when no listener matches, nothing changes.
C25_UnlistenLastMatch ==
    (Returned /\ call.op[1] = "unlisten") =>
        LET lis == call.op[3]
            pre == call.pre.wire[1].listeners
            now == wire[1].listeners
        IN /\ lis \notin Range(pre) => now = pre
           /\ lis \in Range(pre) =>
                 \E k \in 1..Len(pre) :
                     /\ pre[k] = lis
                     /\ \A j \in (k + 1)..Len(pre) : pre[j] # lis
                     /\ now = [i \in 1..(Len(pre) - 1) |->
                                  IF i < k THEN pre[i] ELSE pre[i + 1]]
           /\ \A w \in Wires \ {1} : wire[w] = call.pre.wire[w]

\* C25 witness: a listener registered twice, with another one between, was
\* unregistered once
C25_Witness ==
    /\ Returned
    /\ call.op[1] = "unlisten"
    /\ Len(call.pre.wire[1].listeners) = 3
    /\ call.pre.wire[1].listeners[1] = call.op[3]
    /\ call.pre.wire[1].listeners[3] = call.op[3]
    /\ call.pre.wire[1].listeners[2] # call.op[3]
    /\ wire[1].listeners = SubSeq(call.pre.wire[1].listeners, 1, 2)

----------------------------------------------------------------------------
(* Claims about the re-entrancy guard, under SpecReentrant                 *)

\* a sweep of the listeners of wire w is in progress
InSweep(w) ==
    \E k \in 1..Len(stack) :
        stack[k].fn = "wire_call_listeners" /\ stack[k].wire = w

\* C26: in_callback of a wire is set during the whole of every sweep of its
\* listeners, also after a nested sweep of the same wire has returned, so
\* that every notification that begins during the sweep is diagnosed.
C26_GuardHeldDuringSweep ==
    \A w \in Wires : InSweep(w) => wire[w].in_callback

----------------------------------------------------------------------------
(* Claims about freeing wires and drivers, under SpecGraph                 *)

\* C27: after qemu_free_wire(W) no driver's wires list contains W and every
\* driver has lost one reference for each of its attachments to W; after
\* qemu_free_wiredriver(D) no wire's attachments contain D, and every wire D
\* was attached to caches the resolution of its remaining drivers and was
\* resolved once for each attachment of D.
C27_FreeDetachesAll ==
    /\ (Returned /\ call.op[1] = "free_wire") =>
           LET W == call.op[2] IN
           /\ wire[W] = no_wire
           /\ \A d \in Drivers :
                 /\ W \notin Range(driver[d].wires)
                 /\ driver[d].ref = call.pre.driver[d].ref
                        - Count(d, call.pre.wire[W].attachments)
    /\ (Returned /\ call.op[1] = "free_wiredriver") =>
           LET D == call.op[2] IN
           /\ driver[D] = no_driver
           /\ \A w \in Wires :
                 /\ D \notin Range(wire[w].attachments)
                 /\ call.upd[w] = Count(D, call.pre.wire[w].attachments)
                 /\ call.upd[w] > 0 =>
                        /\ Cached(wire[w]) = Resolver(attached_states(Cur, w))
                        /\ wire[w].attachments =
                               SelectSeq(call.pre.wire[w].attachments,
                                         LAMBDA x : x # D)

\* C27 witness: a wire with two attachments of one driver was freed, and the
\* driver lost two references
C27_Witness ==
    /\ Returned
    /\ call.op[1] = "free_wire"
    /\ \E d \in Drivers :
          /\ call.pre.wire[call.op[2]].attachments = <<d, d>>
          /\ call.pre.driver[d].ref = 3
          /\ driver[d].ref = 1
          /\ driver[d].wires = <<>>

----------------------------------------------------------------------------
(* Claims about the wire-to-IRQ listener, under SpecIrq                    *)

\* the step enters qemu_wire_irq_handler
IrqNotified ==
    /\ call' # NoCall
    /\ Len(call'.events) > (IF call = NoCall THEN 0 ELSE Len(call.events))

\* the wire of the notification, as the handler finds it
NotifiedWire == wire'[call'.events[Len(call'.events)].wire]
NotifiedDigital ==
    IF wire_sense([wire |-> wire'],
                  call'.events[Len(call'.events)].wire).value
    THEN 1 ELSE 0

\* the "is hi-Z" lines the call has printed
HiZLines(c) == IF c = NoCall THEN 0 ELSE c.hiz

\* C28 as stated: a notification of a wire that is HI_Z leaves the IRQ level,
\* a notification of a wire that is not HI_Z sets the IRQ level to the
\* wire's sensed digital value, and nothing else changes the level, so the
\* level is the digital value at the most recent notification that was not
\* HI_Z.
C28_IrqFollowsWire ==
    [][IF IrqNotified /\ NotifiedWire.strength # STRENGTH_HI_Z
       THEN irq'.level = NotifiedDigital
       ELSE irq'.level = irq.level]_vars

\* C28 amended: the listener does nothing while the storage holds NULL;
\* while it holds the IRQ, a notification of a HI_Z wire leaves the level and
\* prints one diagnostic, a notification of a wire that is not HI_Z sets the
\* level to the wire's sensed digital value, and nothing else changes the
\* level.
C28_IrqFollowsWireWhenStored ==
    [][IF IrqNotified /\ irq.p # NULL
       THEN IF NotifiedWire.strength = STRENGTH_HI_Z
            THEN /\ irq'.level = irq.level
                 /\ call'.hiz = HiZLines(call) + 1
            ELSE /\ irq'.level = NotifiedDigital
                 /\ call'.hiz = HiZLines(call)
       ELSE /\ irq'.level = irq.level
            /\ call' # NoCall => call'.hiz = HiZLines(call)]_vars

\* C28 witness: the handler is entered for a wire that is HI_Z, it has
\* printed its diagnostic, and the IRQ keeps the level 1 of an earlier
\* notification
C28_Witness ==
    /\ TopFn = "handler"
    /\ stack[Len(stack)].lis.handler = irq_handler
    /\ wire[1].strength = STRENGTH_HI_Z
    /\ irq.p # NULL
    /\ irq.level = 1
    /\ call.hiz = 1
    /\ call.pre.wire[1].strength # STRENGTH_HI_Z
    /\ call.pre.wire[1].value # 0

----------------------------------------------------------------------------
(* Claims about termination, under SpecRing                                *)

SweepBound(w) ==
    IF call.op[1] \in {"free_wire", "free_wiredriver"}
    THEN Len(call.pre.wire[w].attachments)
    ELSE 1

RECURSIVE HandlerBound(_)
HandlerBound(ws) ==
    IF ws = {} THEN 0
    ELSE LET w == CHOOSE x \in ws : TRUE
         IN SweepBound(w) * Len(call.pre.wire[w].listeners)
                + HandlerBound(ws \ {w})

----------------------------------------------------------------------------
(* Claims about spurious notifications, under SpecSister                   *)

\* the step enters recorder_handler with opaque pointer o
Recorded(o) ==
    /\ call' # NoCall
    /\ call'.entered > (IF call = NoCall THEN 0 ELSE call.entered)
    /\ stack'[Len(stack')].lis = Listener(recorder, o)

\* cached states a and b differ under the change predicate
Differ(a, b) ==
    \/ a.is_conflict # b.is_conflict
    \/ (a.strength = STRENGTH_HI_Z) # (b.strength = STRENGTH_HI_Z)
    \/ /\ b.strength # STRENGTH_HI_Z
       /\ (a.value_mode # b.value_mode \/ a.value # b.value)

\* C30: whenever a leaf listener is called, the cached state of its wire
\* differs under the change predicate from the state at the listener's
\* previous call, or from the initial HI_Z state at its first call.
C30_NoSpuriousNotification ==
    [][\A o \in Strings :
          Recorded(o) =>
              Differ(IF rec[o] = <<>> THEN Cached(new_wire) ELSE rec[o][1],
                     rec'[o][1])]_vars

----------------------------------------------------------------------------
(* Claims about what a drive leaves alone, under Spec                      *)

\* the wires in the wires list of a driver the batch in progress names
DrivenWires ==
    {w \in Wires :
        \E k \in 1..Len(call.op[2]) :
            /\ call.op[2][k].driver # NULL
            /\ w \in Range(call.pre.driver[call.op[2][k].driver].wires)}

\* C31: while a drive or a batch of drives is in progress and when it has
\* returned, every wire that is not in the wires list of a driven driver is
\* as it was before the call, cached state and flags, and it was neither
\* resolved nor were its listeners swept or invoked.
C31_DriveLeavesOtherWires ==
    InBatch =>
        \A w \in Wires \ DrivenWires :
            /\ wire[w] = call.pre.wire[w]
            /\ call.upd[w] = 0
            /\ call.swp[w] = 0
            /\ Invocations(w) = 0

\* C31 witness: a drive has returned that changed wire 1 and called its
\* listener, while wire 2, driven by another driver and not HI_Z, is not in
\* the wires list of the driven driver
C31_Witness ==
    /\ Returned
    /\ InBatch
    /\ DrivenWires = {1}
    /\ Invocations(1) = 1
    /\ Cached(wire[1]) # Cached(call.pre.wire[1])
    /\ wire[2].attachments # <<>>
    /\ wire[2].strength # STRENGTH_HI_Z

----------------------------------------------------------------------------
(* Claims about the value a composite listener starts with, under SpecTwin *)

\* what the call in progress has passed to the user's handler of token o
Passed(o) ==
    LET mine == SelectSeq(call.mevents, LAMBDA e : e.opaque = o)
    IN [k \in 1..Len(mine) |->
           <<mine[k].value, mine[k].weakest_strength, mine[k].n>>]

\* C32: two composite listeners registered for the same wires, before either
\* struct is written to, whatever their value fields held: when a call has
\* returned, the user's handler has been called for both with the same
\* arguments in the same order, and both structs hold the same snapshot
\* unless neither has been written to.
C32_InitialValueIsNeverRead ==
    (Returned /\ \A o \in TwinTokens : multi[o] # no_multi) =>
        /\ Passed(1) = Passed(2)
        /\ multi[1].weakest_strength = multi[2].weakest_strength
        /\ multi[1].in_conflict = multi[2].in_conflict
        /\ \/ multi[1].value = multi[2].value
           \/ \A o \in TwinTokens :
                  \E v \in UninitValues :
                      multi[o] = registered(multi[o].wires, v)

\* C32 witness: the structs started with different values, a call has
\* returned in which the user's handler was called for both listeners, and
\* nothing is driven on one of the wires: the call compared nothing with
\* the value
C32_Witness ==
    /\ Returned
    /\ call.op[1] = "multi_drive"
    /\ \A o \in TwinTokens : multi[o] # no_multi
    /\ Len(Passed(1)) = 1
    /\ Len(Passed(2)) = 1
    /\ multi[1].weakest_strength = STRENGTH_HI_Z
    /\ multi[1].in_conflict
    /\ multi[1].value = multi[2].value

----------------------------------------------------------------------------
(* Claims about callbacks that unregister any listeners, under             *)
(* SpecUnregister                                                          *)

\* the calls of the listener with opaque pointer o in the call in progress
Calls(o) ==
    Cardinality({k \in 1..Len(call.events) : call.events[k].opaque = o})

\* no slot at or beyond the length was read, no listener was called twice,
\* and after the sweep every listener registered before and after it was
\* called once
InvokedOnce ==
    /\ call.beyond = 0
    /\ \A o \in SweepOpaques : Calls(o) <= 1
    /\ (Returned /\ call.swp[1] = 1) =>
          \A o \in SweepOpaques :
              (/\ Listener(unlistener, o) \in Range(call.pre.wire[1].listeners)
               /\ Listener(unlistener, o) \in Range(wire[1].listeners))
                  => Calls(o) = 1

\* C33: in one sweep of a wire every listener registered when the sweep
\* started and still registered at its turn is called exactly once, and the
\* sweep reads no slot at or beyond the length of the list, whichever
\* listeners the callbacks unregister.
C33_SweepInvokesOnce ==
    (call # NoCall /\ call.op[1] = "multi_drive") => InvokedOnce

\* the same for the sweeps whose callbacks unregistered only themselves and
\* listeners registered after them
InvokedOnceUnlessEarlier ==
    (call # NoCall /\ call.op[1] = "multi_drive" /\ call.earlier = 0) => InvokedOnce

\* a callback unregistered itself and a listener registered after it, and
\* the sweep called the three listeners once each
UnregisteredLaterOnes ==
    /\ Returned
    /\ call.op[1] = "multi_drive"
    /\ call.earlier = 0
    /\ Len(call.events) = 3
    /\ wire[1].listeners = <<Listener(unlistener, 1)>>
    /\ spare[1] = <<Listener(unlistener, 3), Listener(unlistener, 3)>>

============================================================================
